---- MODULE Spec2Model ----
(***************************************************************************)
(* Cerea GIS converter: the pattern/contour decoders (src/cerea_gis/       *)
(* patterns.py, contour.py) and the per-field edit ledger kept in          *)
(* st.session_state.field_edits (src/cerea_gis/state_helpers.py).          *)
(*                                                                         *)
(* Conventions                                                             *)
(*   - a Python value that may be None (or a file that may not exist) is   *)
(*     a sequence of length <= 1: None = <<>>, a present value v = <<v>>;  *)
(*   - a dict is a function whose DOMAIN is the set of its keys;           *)
(*   - a list is a sequence; a point (x, y) is the tuple <<x, y>>;         *)
(*   - a text row is the sequence of its comma-separated, stripped parts;  *)
(*     a coordinate part is [num |-> TRUE, v |-> n] when float() accepts   *)
(*     it and [num |-> FALSE, v |-> 0] when float() raises ValueError.     *)
(***************************************************************************)
EXTENDS Integers, Sequences, FiniteSets, TLC

VARIABLES
    field_edits,     \* st.session_state.field_edits: key -> edit state
    sources,         \* the import root on disk: key -> contour / patterns file
    ret,             \* the last state_helpers call and what it returned
    p_rows,          \* parse_patterns: the rows of the open file
    p_next,          \* parse_patterns: index of the next row to read
    pattern_points,  \* parse_patterns: name -> points, in insertion order
    result,          \* parse_patterns: None, or Some of the returned list
    loaded_items,    \* load_field_data: None, or Some of the list with ids
    c_doc,           \* the contour.txt handed to parse_contour
    c_out,           \* None, or Some of the call made on c_doc and its outcome
    u_lines,         \* the lines of the universe.txt handed to read_center
    u_out,           \* None, or Some of the outcome of read_center
    root,            \* the import root on disk: universe.txt and farm directories
    import_out,      \* None, or Some of the call made on root and its outcome
    temp_dirs,       \* app.py: the cerea_export_ directories that exist
    mkdtemp_count,   \* app.py: how many tempfile.mkdtemp calls were made
    export_bundle,   \* app.py: st.session_state.export_bundle (None or its label)
    handler          \* app.py: the last export button handler and how it ended

ledger_vars == <<field_edits, sources, ret>>
parse_vars == <<p_rows, p_next, pattern_points, result, loaded_items>>
decode_vars == <<c_doc, c_out, u_lines, u_out>>
import_vars == <<root, import_out>>
archive_vars == <<temp_dirs, mkdtemp_count, export_bundle, handler>>
extra_vars == <<decode_vars, import_vars, archive_vars>>
vars == <<ledger_vars, parse_vars, extra_vars>>

-----------------------------------------------------------------------------
(* Generic helpers for sequences and dicts.                                *)

None == <<>>
Some(v) == <<v>>

Range(s) == {s[i] : i \in DOMAIN s}

\* d[k] = v on a dict
Put(d, k, v) == [x \in (DOMAIN d) \cup {k} |-> IF x = k THEN v ELSE d[x]]

\* d.pop(k, None)
Pop(d, k) == [x \in (DOMAIN d) \ {k} |-> d[x]]

\* the element of a one-element set: a local assigned once, as in
\* Only({f(x) : x \in {e}})
Only(S) == CHOOSE x \in S : TRUE

EmptyDict == [x \in {} |-> 0]

\* All sequences over S of length 0..n
SeqsUpTo(S, n) == UNION {[1..m -> S] : m \in 0..n}

-----------------------------------------------------------------------------
(* Bounds of the model and the inputs drawn from them.                     *)

\* track ids the edit calls are given are 0..MaxTrackId
MaxTrackId == 1
\* rows of a pattern file in the decoder specification
MaxRows == 3

TrackIds == 0..MaxTrackId

\* center_x, center_y: the field-universe origin handed to the decoders
Center == <<500, 800>>

Tok(n) == [num |-> TRUE, v |-> n]
BadTok == [num |-> FALSE, v |-> 0]

-----------------------------------------------------------------------------
(* patterns.py: parse_patterns.                                            *)

\* lines 29-35: the points of one row; the triplets start at index 3, a
\* triplet whose x or y part is not numeric is left out, z is never read
RECURSIVE row_points_from(_, _, _)
row_points_from(parts, j, center) ==
    IF j + 2 > Len(parts) THEN <<>>
    ELSE LET rest == row_points_from(parts, j + 3, center)
         IN  IF parts[j].num /\ parts[j + 1].num
             THEN << <<center[1] + parts[j].v, center[2] + parts[j + 1].v>> >> \o rest
             ELSE rest

\* variant of row_points: one triplet that is not numeric empties the row
row_points_all_or_nothing(parts, center) ==
    IF \E j \in 4..(Len(parts) - 2) :
          (j - 4) % 3 = 0 /\ ~(parts[j].num /\ parts[j + 1].num)
    THEN <<>>
    ELSE row_points_from(parts, 4, center)

row_points(parts, center) == row_points_from(parts, 4, center)

\* position of name in the dict (0: not a key)
KeyIndex(pp, name) ==
    IF \E i \in DOMAIN pp : pp[i].name = name
    THEN CHOOSE i \in DOMAIN pp : pp[i].name = name
    ELSE 0

\* variant of extend_points: the whole row is appended, junction or not
extend_points_whole_row(points, rp) == points \o rp

\* lines 44-48: a later row of a name; the junction point is not repeated
extend_points(points, rp) ==
    IF points[Len(points)] = rp[1] THEN points \o Tail(rp) ELSE points \o rp

\* variant of pattern_row: pattern_points[name] is looked up before the
\* row's point count is tested, so a skipped row already makes the key
pattern_row_key_first(pp, parts, center) ==
    IF Len(parts) < 9 THEN pp
    ELSE LET name == parts[3]
             rp == row_points(parts, center)
             i == KeyIndex(pp, name)
         IN  IF i = 0
             THEN Append(pp, [name |-> name,
                              points |-> IF Len(rp) < 2 THEN <<>> ELSE rp])
             ELSE IF Len(rp) < 2 THEN pp
             ELSE IF pp[i].points = <<>> THEN [pp EXCEPT ![i].points = rp]
             ELSE [pp EXCEPT ![i].points = extend_points(pp[i].points, rp)]

\* variant of pattern_row: a row of fewer than 9 fields that has a name
\* field makes the key pattern_points[name]
pattern_row_short_row_named(pp, parts, center) ==
    IF Len(parts) < 9
    THEN IF Len(parts) >= 3 /\ KeyIndex(pp, parts[3]) = 0
         THEN Append(pp, [name |-> parts[3], points |-> <<>>])
         ELSE pp
    ELSE LET name == parts[3]
             rp == row_points(parts, center)
             i == KeyIndex(pp, name)
         IN  IF Len(rp) < 2 THEN pp
             ELSE IF i = 0 THEN Append(pp, [name |-> name, points |-> rp])
             ELSE IF pp[i].points = <<>> THEN [pp EXCEPT ![i].points = rp]
             ELSE [pp EXCEPT ![i].points = extend_points(pp[i].points, rp)]

\* lines 21-48: the body of the loop for one row
pattern_row(pp, parts, center) ==
    IF Len(parts) < 9 THEN pp
    ELSE LET name == parts[3]
             rp == row_points(parts, center)
             i == KeyIndex(pp, name)
         IN  IF Len(rp) < 2 THEN pp
             ELSE IF i = 0 THEN Append(pp, [name |-> name, points |-> rp])
             ELSE IF pp[i].points = <<>> THEN [pp EXCEPT ![i].points = rp]
             ELSE [pp EXCEPT ![i].points = extend_points(pp[i].points, rp)]

\* lines 50-55: one (name, LineString) per name with at least 2 points
pattern_result(pp) ==
    LET kept == SelectSeq(pp, LAMBDA e : Len(e.points) >= 2)
    IN  [i \in DOMAIN kept |-> <<kept[i].name, kept[i].points>>]

RECURSIVE read_rows(_, _, _)
read_rows(pp, rows, center) ==
    IF rows = <<>> THEN pp
    ELSE read_rows(pattern_row(pp, Head(rows), center), Tail(rows), center)

parse_patterns(rows, center) == pattern_result(read_rows(<<>>, rows, center))

-----------------------------------------------------------------------------
(* contour.py: parse_contour. A contour.txt is                             *)
(*   [json |-> "invalid" | "other" | "object", field |-> None | Some(v)]   *)
(* where json tells whether json.load accepts the text and whether the     *)
(* value is an object, field is the value of "contourTrueStr" and v is     *)
(* [str |-> TRUE, coords |-> the parts of the string] or [str |-> FALSE,   *)
(* coords |-> <<>>] for a value that is not a string.                      *)
(* The result is [raised, polygon]: raised is None, or Some of the name    *)
(* of the exception that leaves the function.                              *)

Raised(exc) == [raised |-> Some(exc), polygon |-> <<>>]

ContourDoc(coords) ==
    [json |-> "object", field |-> Some([str |-> TRUE, coords |-> coords])]

\* shapely's Polygon: a shell of 1 or 2 coordinate tuples raises ValueError
Polygon(points) ==
    IF Len(points) \in {1, 2} THEN Raised("ValueError")
    ELSE [raised |-> None, polygon |-> points]

\* variant of contour_points: a point needs its whole x, y, z triplet
RECURSIVE contour_points_whole_triplet(_, _, _)
contour_points_whole_triplet(coords, j, center) ==
    IF j > Len(coords) THEN [raised |-> None, points |-> <<>>]
    ELSE IF ~coords[j].num THEN [raised |-> Some("ValueError"), points |-> <<>>]
    ELSE IF j + 2 > Len(coords) THEN [raised |-> Some("IndexError"), points |-> <<>>]
    ELSE IF ~coords[j + 1].num THEN [raised |-> Some("ValueError"), points |-> <<>>]
    ELSE LET rest == contour_points_whole_triplet(coords, j + 3, center)
         IN  [raised |-> rest.raised,
              points |-> IF rest.raised # None THEN <<>>
                         ELSE << <<center[1] + coords[j].v, center[2] + coords[j + 1].v>> >>
                              \o rest.points]

\* lines 19-26: coords[i], coords[i + 1] for i = 0, 3, 6, ...; the result is
\* [raised, points]
RECURSIVE contour_points(_, _, _)
contour_points(coords, j, center) ==
    IF j > Len(coords) THEN [raised |-> None, points |-> <<>>]
    ELSE IF ~coords[j].num THEN [raised |-> Some("ValueError"), points |-> <<>>]
    ELSE IF j + 1 > Len(coords) THEN [raised |-> Some("IndexError"), points |-> <<>>]
    ELSE IF ~coords[j + 1].num THEN [raised |-> Some("ValueError"), points |-> <<>>]
    ELSE LET rest == contour_points(coords, j + 3, center)
         IN  [raised |-> rest.raised,
              points |-> IF rest.raised # None THEN <<>>
                         ELSE << <<center[1] + coords[j].v, center[2] + coords[j + 1].v>> >>
                              \o rest.points]

parse_contour(doc, center) ==
    IF doc.json = "invalid" THEN Raised("ValueError")
    ELSE IF doc.json # "object" THEN Raised("TypeError")
    ELSE IF doc.field = None THEN Raised("KeyError")
    ELSE IF ~doc.field[1].str THEN Raised("AttributeError")
    ELSE LET pts == contour_points(doc.field[1].coords, 1, center)
         IN  IF pts.raised # None THEN [raised |-> pts.raised, polygon |-> <<>>]
             ELSE Polygon(pts.points)

-----------------------------------------------------------------------------
(* universe.py: read_center. A universe.txt is the list readlines()        *)
(* returns; a line is the sequence of the parts of line.strip().split(",") *)
(* so a blank line is the one part that is the empty text.                 *)
(* The result is [raised, center].                                         *)

\* the empty text: float() raises ValueError on it
EmptyTok == [num |-> FALSE, v |-> -1]

BlankLine == <<EmptyTok>>

\* variant of read_center: the blank lines at the end are dropped first
RECURSIVE read_center_last_non_blank(_)
read_center_last_non_blank(lines) ==
    IF lines = <<>> THEN [raised |-> Some("IndexError"), center |-> <<>>]
    ELSE LET last_line == lines[Len(lines)]
         IN  IF last_line = BlankLine
             THEN read_center_last_non_blank(SubSeq(lines, 1, Len(lines) - 1))
             ELSE IF Len(last_line) # 2 \/ ~last_line[1].num \/ ~last_line[2].num
             THEN [raised |-> Some("ValueError"), center |-> <<>>]
             ELSE [raised |-> None, center |-> <<last_line[1].v, last_line[2].v>>]

read_center(lines) ==
    IF lines = <<>> THEN [raised |-> Some("IndexError"), center |-> <<>>]
    ELSE LET last_line == lines[Len(lines)]
         IN  IF Len(last_line) # 2 \/ ~last_line[1].num \/ ~last_line[2].num
             THEN [raised |-> Some("ValueError"), center |-> <<>>]
             ELSE [raised |-> None, center |-> <<last_line[1].v, last_line[2].v>>]

-----------------------------------------------------------------------------
(* state_helpers.py: load_field_data. A source is                          *)
(* [contour |-> None or Some(contour.txt),                                 *)
(*  patterns |-> None or Some(rows of patterns.txt)].                      *)
(* The result is [raised, polygon, line_items, notes]; raised is None, or  *)
(* Some of the name of the exception that leaves the function.             *)

\* lines 22, 30: except (OSError, ValueError, KeyError, TypeError, IndexError)
Caught == {"OSError", "ValueError", "KeyError", "TypeError", "IndexError"}

load_field_data(src, center) ==
    LET r == IF src.contour = None THEN [raised |-> None, polygon |-> <<>>]
             ELSE parse_contour(src.contour[1], center)
        raw_lines == IF src.patterns = None THEN <<>>
                     ELSE parse_patterns(src.patterns[1], center)
    IN  IF r.raised # None /\ r.raised[1] \notin Caught
        THEN [raised |-> r.raised, polygon |-> None, line_items |-> <<>>,
              notes |-> <<>>]
        ELSE [raised |-> None,
              polygon |-> IF src.contour # None /\ r.raised = None
                          THEN Some(r.polygon) ELSE None,
              line_items |-> [i \in DOMAIN raw_lines |->
                                 [id |-> i - 1, name |-> raw_lines[i][1],
                                  geometry |-> raw_lines[i][2]]],
              notes |-> IF r.raised = None THEN <<>>
                        ELSE <<"Unreadable contour source">>]

-----------------------------------------------------------------------------
(* state_helpers.py: load_field_data_from_shapefiles. A vector file is     *)
(* None (absent) or Some of                                                *)
(*   [present |-> the companion extensions that exist next to the .shp,    *)
(*    gdf |-> what gpd.read_file gives for it:                             *)
(*       [raises |-> None or Some(exception), crs |-> None, "EPSG:4326"    *)
(*        or "EPSG:25832", has_name_col, rows |-> <<[name, geometry]>>]]   *)
(* where name is None or Some(string). A geometry is [in |-> the CRS its   *)
(* coordinates are in, of |-> the set of its parts, displaced |-> whether  *)
(* a reprojection read its coordinates in the wrong CRS].                  *)
(* The result is [raised, polygon, line_items, notes].                     *)

SidecarExts == <<".shx", ".dbf", ".prj">>

\* variant of get_missing_shapefile_sidecars: no companion file is required
get_missing_shapefile_sidecars_none(shp) ==
    SelectSeq(SidecarExts, LAMBDA ext : FALSE)

\* io_helpers.py lines 34-36
get_missing_shapefile_sidecars(shp) ==
    SelectSeq(SidecarExts, LAMBDA ext : ext \notin shp.present)

\* gdf.to_crs(epsg=25832) of one geometry of a frame whose CRS is crs: the
\* shape in EPSG:25832 when the coordinates are in crs, and a shape
\* displaced by the wrong reading of the coordinates when they are not
to_crs_25832(crs, geometry) ==
    [in |-> "EPSG:25832", of |-> geometry.of,
     displaced |-> geometry.displaced \/ geometry.in # crs]

\* variant of reprojected: a frame without CRS is taken to be in EPSG:25832
reprojected_no_default(gdf) ==
    LET crs == IF gdf.crs = None THEN "EPSG:25832" ELSE gdf.crs[1]
    IN  [i \in DOMAIN gdf.rows |-> to_crs_25832(crs, gdf.rows[i].geometry)]

\* lines 51-53 and 69-71: set_crs(epsg=4326) when crs is None, then to_crs
reprojected(gdf) ==
    LET crs == IF gdf.crs = None THEN "EPSG:4326" ELSE gdf.crs[1]
    IN  [i \in DOMAIN gdf.rows |-> to_crs_25832(crs, gdf.rows[i].geometry)]

\* gdf.geometry.unary_union
unary_union(geometries) ==
    [in |-> "EPSG:25832",
     of |-> UNION {geometries[i].of : i \in DOMAIN geometries},
     displaced |-> \E i \in DOMAIN geometries : geometries[i].displaced]

ShpCaught == {"OSError", "ValueError", "TypeError"}

\* lines 73-78: the tracks of the frame
shapefile_line_items(gdf) ==
    LET geometries == reprojected(gdf)
    IN  [i \in DOMAIN gdf.rows |->
            [id |-> i - 1,
             name |-> IF gdf.has_name_col /\ gdf.rows[i].name # None
                         /\ gdf.rows[i].name[1] # ""
                      THEN gdf.rows[i].name[1]
                      ELSE <<"Track", i>>,
             geometry |-> geometries[i]]]

\* lines 44-59 (kind = "Contour") and 61-83 (kind = "Patterns"): what one
\* vector file gives: [raised, frame, notes], frame being None or Some of
\* the frame that was read and is not empty
read_shapefile(shp, kind) ==
    IF shp = None THEN [raised |-> None, frame |-> None, notes |-> <<>>]
    ELSE IF get_missing_shapefile_sidecars(shp[1]) # <<>>
    THEN [raised |-> None, frame |-> None,
          notes |-> <<[note |-> "sidecars missing", source |-> kind,
                       missing |-> get_missing_shapefile_sidecars(shp[1])]>>]
    ELSE IF shp[1].gdf.raises # None
    THEN IF shp[1].gdf.raises[1] \in ShpCaught
         THEN [raised |-> None, frame |-> None,
               notes |-> <<[note |-> "Unreadable source", source |-> kind,
                            missing |-> <<>>]>>]
         ELSE [raised |-> shp[1].gdf.raises, frame |-> None, notes |-> <<>>]
    ELSE [raised |-> None,
          frame |-> IF shp[1].gdf.rows = <<>> THEN None ELSE Some(shp[1].gdf),
          notes |-> <<>>]

\* lines 43-87
load_field_data_from_shapefiles(contour_shp, patterns_shp) ==
    Only({ IF contour.raised # None
           THEN [raised |-> contour.raised, polygon |-> None,
                 line_items |-> <<>>, notes |-> <<>>]
           ELSE Only({ [raised |-> patterns.raised,
                        polygon |-> IF contour.frame = None THEN None
                                    ELSE Some(unary_union(reprojected(contour.frame[1]))),
                        line_items |-> IF patterns.frame = None THEN <<>>
                                       ELSE shapefile_line_items(patterns.frame[1]),
                        notes |-> contour.notes \o patterns.notes]
                       : patterns \in {read_shapefile(patterns_shp, "Patterns")} })
           : contour \in {read_shapefile(contour_shp, "Contour")} })

-----------------------------------------------------------------------------
(* state_helpers.py: the edit ledger. An edit state is the dict            *)
(* {"order": None | list, "renamed": dict, "deleted_ids": list,            *)
(*  "dirty": bool}; track ids are ints and names are strings, on which     *)
(* int() and str() change nothing.                                         *)

EditKeys == {"order", "renamed", "deleted_ids", "dirty"}

\* the list without its repeated elements, first occurrences kept
RECURSIVE unique_in_order(_, _)
unique_in_order(ids, seen) ==
    IF ids = <<>> THEN <<>>
    ELSE IF Head(ids) \in seen THEN unique_in_order(Tail(ids), seen)
    ELSE <<Head(ids)>> \o unique_in_order(Tail(ids), seen \cup {Head(ids)})

_normalize_edit_state(raw_state) ==
    LET state == Pop(Pop(raw_state, "polygon"), "line_items")
        has(k) == k \in DOMAIN state
    IN  [k \in (DOMAIN state) \cup EditKeys |->
            CASE k = "order" ->
                     IF has(k) /\ state[k] # None THEN state[k] ELSE None
              [] k = "renamed" ->
                     IF has(k) THEN state[k] ELSE EmptyDict
              [] k = "deleted_ids" ->
                     IF has(k) THEN unique_in_order(state[k], {}) ELSE <<>>
              [] k = "dirty" ->
                     IF has(k) THEN state[k] ELSE FALSE
              [] OTHER -> state[k]]

_empty_edit_state ==
    [order |-> None, renamed |-> EmptyDict, deleted_ids |-> <<>>, dirty |-> FALSE]

\* returns the dict of all entries with the entry of key normalized and stored
_get_or_create_edit_state(fe, key) ==
    Put(fe, key, _normalize_edit_state(IF key \in DOMAIN fe THEN fe[key] ELSE EmptyDict))

\* variant of requested_ids: the requested order is walked last to first
RECURSIVE requested_ids_backwards(_, _, _)
requested_ids_backwards(order, known, seen) ==
    IF order = <<>> THEN <<>>
    ELSE LET last == order[Len(order)]
             front == SubSeq(order, 1, Len(order) - 1)
         IN  IF last \in seen \/ last \notin known
             THEN requested_ids_backwards(front, known, seen)
             ELSE <<last>> \o requested_ids_backwards(front, known, seen \cup {last})

\* lines 171-177: the requested ids that are decoded, once each
RECURSIVE requested_ids(_, _, _)
requested_ids(order, known, seen) ==
    IF order = <<>> THEN <<>>
    ELSE IF Head(order) \in seen \/ Head(order) \notin known
         THEN requested_ids(Tail(order), known, seen)
    ELSE <<Head(order)>> \o requested_ids(Tail(order), known, seen \cup {Head(order)})

\* items_by_id[track_id]: the last decoded item carrying that id
item_by_id(line_items, track_id) ==
    line_items[CHOOSE i \in DOMAIN line_items :
                  /\ line_items[i].id = track_id
                  /\ \A j \in DOMAIN line_items : line_items[j].id = track_id => j <= i]

\* variant of _apply_line_item_edits: the second loop appends every base id,
\* without the test against `seen`
_apply_line_item_edits_unseen(line_items, edit_state) ==
    IF line_items = <<>> THEN <<>>
    ELSE LET deleted_ids == Range(edit_state.deleted_ids)
             renamed == edit_state.renamed
             requested_order == IF edit_state.order = None THEN <<>>
                                ELSE edit_state.order[1]
             base_ids == [i \in DOMAIN line_items |-> line_items[i].id]
             first == requested_ids(requested_order, Range(base_ids), {})
             ordered_ids == first \o base_ids
             kept == SelectSeq(ordered_ids, LAMBDA t : t \notin deleted_ids)
         IN  [i \in DOMAIN kept |->
                 LET item == item_by_id(line_items, kept[i])
                 IN  [id |-> kept[i],
                      name |-> IF kept[i] \in DOMAIN renamed
                               THEN renamed[kept[i]] ELSE item.name,
                      geometry |-> item.geometry]]

_apply_line_item_edits(line_items, edit_state) ==
    IF line_items = <<>> THEN <<>>
    ELSE LET deleted_ids == Range(edit_state.deleted_ids)
             renamed == edit_state.renamed
             requested_order == IF edit_state.order = None THEN <<>>
                                ELSE edit_state.order[1]
             base_ids == [i \in DOMAIN line_items |-> line_items[i].id]
             first == requested_ids(requested_order, Range(base_ids), {})
             ordered_ids == first \o unique_in_order(base_ids, Range(first))
             kept == SelectSeq(ordered_ids, LAMBDA t : t \notin deleted_ids)
         IN  [i \in DOMAIN kept |->
                 LET item == item_by_id(line_items, kept[i])
                 IN  [id |-> kept[i],
                      name |-> IF kept[i] \in DOMAIN renamed
                               THEN renamed[kept[i]] ELSE item.name,
                      geometry |-> item.geometry]]

\* variant of delete_track_edit: the id is appended to deleted_ids and
\* stays in renamed
delete_track_edit_renamed_kept(fe, key, track_id) ==
    LET created == _get_or_create_edit_state(fe, key)
        state == created[key]
    IN  IF track_id \in Range(state.deleted_ids)
        THEN [field_edits |-> created, ret |-> FALSE]
        ELSE [field_edits |->
                 Put(created, key,
                     [state EXCEPT
                        !.deleted_ids = Append(state.deleted_ids, track_id),
                        !.order = IF state.order # None
                                  THEN Some(SelectSeq(state.order[1],
                                                      LAMBDA t : t # track_id))
                                  ELSE None,
                        !.dirty = TRUE]),
              ret |-> TRUE]

\* variant of delete_track_edit: the id is purged from renamed and order
\* but not appended to deleted_ids
delete_track_edit_unrecorded(fe, key, track_id) ==
    LET created == _get_or_create_edit_state(fe, key)
        state == created[key]
    IN  IF track_id \in Range(state.deleted_ids)
        THEN [field_edits |-> created, ret |-> FALSE]
        ELSE [field_edits |->
                 Put(created, key,
                     [state EXCEPT
                        !.renamed = Pop(state.renamed, track_id),
                        !.order = IF state.order # None
                                  THEN Some(SelectSeq(state.order[1],
                                                      LAMBDA t : t # track_id))
                                  ELSE None,
                        !.dirty = TRUE]),
              ret |-> TRUE]

\* variant of delete_track_edit: dirty is set before the early return
delete_track_edit_dirty_first(fe, key, track_id) ==
    LET created == _get_or_create_edit_state(fe, key)
        state == [created[key] EXCEPT !.dirty = TRUE]
    IN  IF track_id \in Range(state.deleted_ids)
        THEN [field_edits |-> Put(created, key, state), ret |-> FALSE]
        ELSE [field_edits |->
                 Put(created, key,
                     [state EXCEPT
                        !.deleted_ids = Append(state.deleted_ids, track_id),
                        !.renamed = Pop(state.renamed, track_id),
                        !.order = IF state.order # None
                                  THEN Some(SelectSeq(state.order[1],
                                                      LAMBDA t : t # track_id))
                                  ELSE None]),
              ret |-> TRUE]

\* returns [field_edits, ret]
delete_track_edit(fe, key, track_id) ==
    LET created == _get_or_create_edit_state(fe, key)
        state == created[key]
    IN  IF track_id \in Range(state.deleted_ids)
        THEN [field_edits |-> created, ret |-> FALSE]
        ELSE [field_edits |->
                 Put(created, key,
                     [state EXCEPT
                        !.deleted_ids = Append(state.deleted_ids, track_id),
                        !.renamed = Pop(state.renamed, track_id),
                        !.order = IF state.order # None
                                  THEN Some(SelectSeq(state.order[1],
                                                      LAMBDA t : t # track_id))
                                  ELSE None,
                        !.dirty = TRUE]),
              ret |-> TRUE]

\* variant of rename_track_edit: a name already stored for the id is kept
rename_track_edit_keep_first(fe, key, track_id, new_name) ==
    LET created == _get_or_create_edit_state(fe, key)
        state == created[key]
    IN  Put(created, key,
            [state EXCEPT !.renamed = IF track_id \in DOMAIN state.renamed
                                      THEN state.renamed
                                      ELSE Put(state.renamed, track_id, new_name),
                          !.dirty = TRUE])

rename_track_edit(fe, key, track_id, new_name) ==
    LET created == _get_or_create_edit_state(fe, key)
        state == created[key]
    IN  Put(created, key,
            [state EXCEPT !.renamed = Put(state.renamed, track_id, new_name),
                          !.dirty = TRUE])

\* variant of set_track_order_edit: `normalized or None` is stored
set_track_order_edit_or_none(fe, key, ordered_track_ids) ==
    LET created == _get_or_create_edit_state(fe, key)
        state == created[key]
        normalized == unique_in_order(ordered_track_ids, {})
    IN  Put(created, key,
            [state EXCEPT !.order = IF normalized = <<>> THEN None
                                    ELSE Some(normalized),
                          !.dirty = TRUE])

set_track_order_edit(fe, key, ordered_track_ids) ==
    LET created == _get_or_create_edit_state(fe, key)
        state == created[key]
    IN  Put(created, key,
            [state EXCEPT !.order = Some(unique_in_order(ordered_track_ids, {})),
                          !.dirty = TRUE])

\* variant of mark_field_edit_clean: every entry is marked clean
mark_field_edit_clean_all(fe, key) ==
    IF key \notin DOMAIN fe THEN fe
    ELSE [k \in DOMAIN fe |-> Put(fe[k], "dirty", FALSE)]

mark_field_edit_clean(fe, key) ==
    IF key \notin DOMAIN fe THEN fe
    ELSE Put(fe, key, Put(fe[key], "dirty", FALSE))

\* A string is the sequence of its characters; an import mode is one
\* character that is not a colon.
Separator == <<":", ":">>

\* line 251: f"{import_mode}::{farm_name}::{field_name}"
field_key(import_mode, farm_name, field_name) ==
    import_mode \o Separator \o farm_name \o Separator \o field_name

\* the index of the leftmost "::" of the string at or after i, 0 if none
RECURSIVE find_separator(_, _)
find_separator(string, i) ==
    IF i + 1 > Len(string) THEN 0
    ELSE IF string[i] = ":" /\ string[i + 1] = ":" THEN i
    ELSE find_separator(string, i + 1)

\* str.split("::", maxsplit)
RECURSIVE split(_, _)
split(string, maxsplit) ==
    IF maxsplit = 0 \/ find_separator(string, 1) = 0 THEN <<string>>
    ELSE <<SubSeq(string, 1, find_separator(string, 1) - 1)>>
         \o split(SubSeq(string, find_separator(string, 1) + 2, Len(string)),
                  maxsplit - 1)

\* lines 254-261: [raised, val]
parse_field_key(key) ==
    CASE Len(split(key, 2)) = 3 -> [raised |-> None, val |-> split(key, 2)]
      [] Len(split(key, 2)) = 2 ->
            [raised |-> None, val |-> <<<<"Cerea txt">>>> \o split(key, 2)]
      [] OTHER -> [raised |-> Some("ValueError"), val |-> <<>>]

\* variant of ensure_field_state: a key without an entry gets the empty
\* edit state stored
ensure_field_state_creating(fe, key, src, center) ==
    LET data == load_field_data(src, center)
        edit_state == IF key \in DOMAIN fe THEN _normalize_edit_state(fe[key])
                      ELSE _empty_edit_state
    IN  [field_edits |-> Put(fe, key, edit_state),
         ret |-> [polygon |-> data.polygon,
                  line_items |-> _apply_line_item_edits(data.line_items, edit_state),
                  dirty |-> edit_state.dirty]]

\* variant of ensure_field_state: the decoded polygon and the reconciled
\* line_items are kept in the entry, as app.py's own ensure_field_state does
ensure_field_state_caching(fe, key, src, center) ==
    LET data == load_field_data(src, center)
        edit_state == IF key \in DOMAIN fe THEN _normalize_edit_state(fe[key])
                      ELSE _empty_edit_state
        line_items == _apply_line_item_edits(data.line_items, edit_state)
    IN  [field_edits |->
             IF key \in DOMAIN fe
             THEN Put(fe, key, Put(Put(edit_state, "polygon", data.polygon),
                                   "line_items", line_items))
             ELSE fe,
         ret |-> [polygon |-> data.polygon,
                  line_items |-> line_items,
                  dirty |-> edit_state.dirty]]

\* returns [field_edits, ret]; ret is the dict the function returns, with
\* raised = None, or raised = Some of the exception load_field_data let through
ensure_field_state(fe, key, src, center) ==
    LET data == load_field_data(src, center)
        edit_state == IF key \in DOMAIN fe THEN _normalize_edit_state(fe[key])
                      ELSE _empty_edit_state
    IN  IF data.raised # None
        THEN [field_edits |-> fe,
              ret |-> [raised |-> data.raised, polygon |-> None,
                       line_items |-> <<>>, dirty |-> FALSE]]
        ELSE [field_edits |-> IF key \in DOMAIN fe THEN Put(fe, key, edit_state) ELSE fe,
              ret |-> [raised |-> None,
                       polygon |-> data.polygon,
                       line_items |-> _apply_line_item_edits(data.line_items, edit_state),
                       dirty |-> edit_state.dirty]]

\* variant of reset_field_state: order and renamed are cleared, the entry stays
reset_field_state_partial(fe, key) ==
    IF key \in DOMAIN fe
    THEN Put(fe, key, [_normalize_edit_state(fe[key]) EXCEPT
                          !.order = None, !.renamed = EmptyDict])
    ELSE fe

\* variant of reset_field_state: the entry is replaced by an empty edit state
reset_field_state_emptied(fe, key) == Put(fe, key, _empty_edit_state)

reset_field_state(fe, key) == Pop(fe, key)

source_exists(src) == src.contour # None \/ src.patterns # None

\* returns [field_edits, ret]; every key is of the import mode in use
reset_all_field_states(fe, srcs) ==
    LET gone == {k \in DOMAIN fe : source_exists(srcs[k])}
    IN  [field_edits |-> [k \in (DOMAIN fe) \ gone |-> fe[k]],
         ret |-> Cardinality(gone)]

\* GeoDataFrame.to_crs(epsg=4326) of a geometry given in EPSG:25832
to_crs(geometry) == <<"EPSG:4326", geometry>>

\* variant of export_field: the rows of the patterns file are sorted by id
export_field_sorted_by_id(polygon, ordered_line_items) ==
    LET items == ordered_line_items
        at(i) == CHOOSE item \in Range(items) :
                    Cardinality({j \in DOMAIN items : items[j].id < item.id}) = i - 1
    IN  [contour |-> IF polygon # None THEN Some(<<[geometry |-> to_crs(polygon[1])]>>)
                     ELSE None,
         patterns |-> IF items # <<>>
                      THEN Some([i \in DOMAIN items |->
                                   [id |-> at(i).id,
                                    name |-> at(i).name,
                                    geometry |-> to_crs(at(i).geometry)]])
                      ELSE None]

\* io_helpers.py: the two shapefiles export_field writes, each None (not
\* written) or Some of its rows in row order
export_field(polygon, ordered_line_items) ==
    [contour |-> IF polygon # None THEN Some(<<[geometry |-> to_crs(polygon[1])]>>)
                 ELSE None,
     patterns |-> IF ordered_line_items # <<>>
                  THEN Some([i \in DOMAIN ordered_line_items |->
                               [id |-> ordered_line_items[i].id,
                                name |-> ordered_line_items[i].name,
                                geometry |-> to_crs(ordered_line_items[i].geometry)]])
                  ELSE None]

\* variant of export_one_field: the test for an empty field is made on the
\* decoded tracks, before the edits are applied
export_one_field_decoded_test(fe, key, src, center) ==
    IF ~source_exists(src)
    THEN [raised |-> None, field_edits |-> fe, exported |-> None,
          report |-> <<"Skipped: no source files found">>]
    ELSE Only({
         LET partial == IF src.contour = None \/ src.patterns = None
                        THEN <<"Partial: missing source file(s)">> ELSE <<>>
             notes == [i \in DOMAIN data.notes |-> "Partial: note"]
             has_edits == key \in DOMAIN fe
             edit_state == IF has_edits THEN _normalize_edit_state(fe[key])
                           ELSE _empty_edit_state
             stored == IF has_edits THEN Put(fe, key, edit_state) ELSE fe
         IN  IF data.raised # None
             THEN [raised |-> data.raised, field_edits |-> fe, exported |-> None,
                   report |-> <<>>]
             ELSE Only({
               IF data.polygon = None /\ data.line_items = <<>>
               THEN [raised |-> None, field_edits |-> stored, exported |-> None,
                     report |-> partial \o notes
                                \o <<"Skipped: no usable contour or patterns data">>]
               ELSE [raised |-> None,
                     field_edits |-> IF has_edits
                                     THEN Put(stored, key, Put(stored[key], "dirty", FALSE))
                                     ELSE stored,
                     exported |-> Some([polygon |-> data.polygon,
                                        line_items |-> line_items,
                                        files |-> export_field(data.polygon, line_items)]),
                     report |-> partial \o notes]
               : line_items \in {IF has_edits
                                 THEN _apply_line_item_edits(data.line_items, edit_state)
                                 ELSE data.line_items} })
       : data \in {load_field_data(src, center)} })

\* variant of export_one_field: a field skipped for want of usable data is
\* marked clean too
export_one_field_clean_when_skipped(fe, key, src, center) ==
    IF ~source_exists(src)
    THEN [raised |-> None, field_edits |-> fe, exported |-> None,
          report |-> <<"Skipped: no source files found">>]
    ELSE Only({
         LET partial == IF src.contour = None \/ src.patterns = None
                        THEN <<"Partial: missing source file(s)">> ELSE <<>>
             notes == [i \in DOMAIN data.notes |-> "Partial: note"]
             has_edits == key \in DOMAIN fe
             edit_state == IF has_edits THEN _normalize_edit_state(fe[key])
                           ELSE _empty_edit_state
             stored == IF has_edits THEN Put(fe, key, edit_state) ELSE fe
         IN  IF data.raised # None
             THEN [raised |-> data.raised, field_edits |-> fe, exported |-> None,
                   report |-> <<>>]
             ELSE Only({
               IF data.polygon = None /\ line_items = <<>>
               THEN [raised |-> None,
                     field_edits |-> IF has_edits
                                     THEN Put(stored, key, Put(stored[key], "dirty", FALSE))
                                     ELSE stored,
                     exported |-> None,
                     report |-> partial \o notes
                                \o <<"Skipped: no usable contour or patterns data">>]
               ELSE [raised |-> None,
                     field_edits |-> IF has_edits
                                     THEN Put(stored, key, Put(stored[key], "dirty", FALSE))
                                     ELSE stored,
                     exported |-> Some([polygon |-> data.polygon,
                                        line_items |-> line_items,
                                        files |-> export_field(data.polygon, line_items)]),
                     report |-> partial \o notes]
               : line_items \in {IF has_edits
                                 THEN _apply_line_item_edits(data.line_items, edit_state)
                                 ELSE data.line_items} })
       : data \in {load_field_data(src, center)} })

\* lines 361-425: one field of the loop, in the "Cerea txt" import mode;
\* returns [raised, field_edits, exported, report]: exported is None or
\* Some of what export_field was given and what it wrote
export_one_field(fe, key, src, center) ==
    IF ~source_exists(src)
    THEN [raised |-> None, field_edits |-> fe, exported |-> None,
          report |-> <<"Skipped: no source files found">>]
    ELSE Only({
         LET partial == IF src.contour = None \/ src.patterns = None
                        THEN <<"Partial: missing source file(s)">> ELSE <<>>
             notes == [i \in DOMAIN data.notes |-> "Partial: note"]
             has_edits == key \in DOMAIN fe
             edit_state == IF has_edits THEN _normalize_edit_state(fe[key])
                           ELSE _empty_edit_state
             stored == IF has_edits THEN Put(fe, key, edit_state) ELSE fe
         IN  IF data.raised # None
             THEN [raised |-> data.raised, field_edits |-> fe, exported |-> None,
                   report |-> <<>>]
             ELSE Only({
               IF data.polygon = None /\ line_items = <<>>
               THEN [raised |-> None, field_edits |-> stored, exported |-> None,
                     report |-> partial \o notes
                                \o <<"Skipped: no usable contour or patterns data">>]
               ELSE [raised |-> None,
                     field_edits |-> IF has_edits
                                     THEN Put(stored, key, Put(stored[key], "dirty", FALSE))
                                     ELSE stored,
                     exported |-> Some([polygon |-> data.polygon,
                                        line_items |-> line_items,
                                        files |-> export_field(data.polygon, line_items)]),
                     report |-> partial \o notes]
               : line_items \in {IF has_edits
                                 THEN _apply_line_item_edits(data.line_items, edit_state)
                                 ELSE data.line_items} })
       : data \in {load_field_data(src, center)} })

\* lines 355-425: the fields in the order in which the directories are
\* listed; an exception ends the loop. Returns [raised, field_edits,
\* exported_count, exported, report], report kept per field.
RECURSIVE export_fields(_, _, _, _)
export_fields(acc, srcs, listing, center) ==
    IF listing = <<>> THEN acc
    ELSE Only({
         IF one.raised # None THEN [acc EXCEPT !.raised = one.raised]
         ELSE Only({export_fields(next, srcs, Tail(listing), center) :
                    next \in {[raised |-> None,
                               field_edits |-> one.field_edits,
                               exported_count |-> acc.exported_count
                                                  + (IF one.exported # None THEN 1 ELSE 0),
                               exported |-> IF one.exported # None
                                            THEN Put(acc.exported, Head(listing),
                                                     one.exported[1])
                                            ELSE acc.exported,
                               report |-> Put(acc.report, Head(listing), one.report)]} })
       : one \in {export_one_field(acc.field_edits, Head(listing),
                                   srcs[Head(listing)], center)} })

\* lines 350-429: listing is the order of get_farms / get_fields (iterdir).
\* Returns [field_edits, ret]; ret is what the function returns
\* (exported_count, report) with what it wrote under output_root (exported);
\* when ret.raised is not None the exception leaves instead, and ret holds
\* what was done before it.
export_all_fields(fe, srcs, listing, center) ==
    Only({[field_edits |-> done.field_edits,
           ret |-> [raised |-> done.raised,
                    exported_count |-> done.exported_count,
                    exported |-> done.exported,
                    report |-> done.report]]
          : done \in {export_fields([raised |-> None, field_edits |-> fe,
                                     exported_count |-> 0, exported |-> EmptyDict,
                                     report |-> EmptyDict],
                                    srcs, listing, center)} })

-----------------------------------------------------------------------------
(* io_helpers.py: validate_import_structure, and core.py:                  *)
(* process_cerea_root. An import root is                                   *)
(*   [universe |-> None or Some(lines of root/universe.txt),               *)
(*    parent_universe |-> whether root.parent/universe.txt exists,         *)
(*    farms |-> the directories of the root, in iterdir order]             *)
(* and a farm is [name, fields], fields being the sources of its field     *)
(* directories in iterdir order.                                           *)

\* lines 66-75: the path found, as "direct" or "parent", or None
resolve_universe_path(r) ==
    IF r.universe # None THEN Some("direct")
    ELSE IF r.parent_universe THEN Some("parent")
    ELSE None

\* variant of validate_import_structure: universe.txt is looked for in the
\* root only
validate_import_structure_direct_only(import_mode, r) ==
    IF r.farms = <<>>
    THEN [issues |-> <<"No farm folders found in import root.">>, farms |-> 0]
    ELSE [issues |-> IF import_mode = "Cerea txt"
                        /\ r.universe = None
                     THEN <<"Missing required file: universe.txt">>
                     ELSE <<>>,
          farms |-> Len(r.farms)]

\* lines 117-202: the issues (the blocking list) and stats["farms"]; the
\* warnings and stats["fields"] are left out, nothing is appended to issues
\* where they are computed
validate_import_structure(import_mode, r) ==
    IF r.farms = <<>>
    THEN [issues |-> <<"No farm folders found in import root.">>, farms |-> 0]
    ELSE [issues |-> IF import_mode = "Cerea txt" /\ resolve_universe_path(r) = None
                     THEN <<"Missing required file: universe.txt">>
                     ELSE <<>>,
          farms |-> Len(r.farms)]

\* core.py lines 32-57: one field directory; [raised, written], written
\* being the files of the field as a list of zero or one element
process_field(farm, f, src, center) ==
    IF src.contour = None THEN [raised |-> None, written |-> <<>>]
    ELSE LET c == parse_contour(src.contour[1], center)
             lines == IF src.patterns = None THEN <<>>
                      ELSE parse_patterns(src.patterns[1], center)
         IN  IF c.raised # None THEN [raised |-> c.raised, written |-> <<>>]
             ELSE [raised |-> None,
                   written |-> <<[farm |-> farm, field |-> f,
                                  contour |-> c.polygon,
                                  pattern |-> IF lines # <<>> THEN Some(lines)
                                              ELSE None]>>]

\* core.py lines 22-57: the fields (farm index, field index) in the order
\* of the two loops, from position n on
RECURSIVE process_fields(_, _, _, _)
process_fields(r, todo, n, center) ==
    IF n > Len(todo) THEN [raised |-> None, written |-> <<>>]
    ELSE LET one == process_field(r.farms[todo[n][1]].name, todo[n][2],
                                  r.farms[todo[n][1]].fields[todo[n][2]], center)
         IN  IF one.raised # None THEN one
             ELSE LET rest == process_fields(r, todo, n + 1, center)
                  IN  [raised |-> rest.raised, written |-> one.written \o rest.written]

RECURSIVE field_walk(_, _, _)
field_walk(r, i, j) ==
    IF i > Len(r.farms) THEN <<>>
    ELSE IF r.farms[i].name = "__pycache__" \/ j > Len(r.farms[i].fields)
         THEN field_walk(r, i + 1, 1)
    ELSE << <<i, j>> >> \o field_walk(r, i, j + 1)

\* core.py lines 8-57: [raised, written]; written is what stands under
\* output_root when the function ends
process_cerea_root(r) ==
    IF r.universe = None
    THEN [raised |-> Some("FileNotFoundError"), written |-> <<>>]
    ELSE LET c == read_center(r.universe[1])
         IN  IF c.raised # None THEN [raised |-> c.raised, written |-> <<>>]
             ELSE process_fields(r, field_walk(r, 1, 1), 1, c.center)

-----------------------------------------------------------------------------
(* io_helpers.py: get_exported_fields. A file name is                      *)
(*   [field |-> the text before the suffix, suffix |-> "_patterns" |       *)
(*    "_contour" | "", ext |-> ".shp" | ".dbf" | ...]                      *)
(* and a farm directory of an exported root is                             *)
(*   [patterns |-> None or Some(the file names in patterns/),              *)
(*    contours |-> None or Some(the file names in contours/)].             *)

\* the field names that occur, in the order of sorted()
FieldNamePool == <<"east", "north">>

\* dir.glob("*" + suffix + ".shp"), each stem with the suffix removed
glob_stems(dir, suffix) ==
    IF dir = None THEN {}
    ELSE {f.field : f \in {g \in dir[1] : g.suffix = suffix /\ g.ext = ".shp"}}

\* sorted(field_names)
sorted(field_names) == SelectSeq(FieldNamePool, LAMBDA n : n \in field_names)

\* variant of get_exported_fields: only the fields that have a patterns
\* file are listed
get_exported_fields_patterns_only(farm) ==
    sorted(glob_stems(farm.patterns, "_patterns"))

\* lines 16-31
get_exported_fields(farm) ==
    sorted(glob_stems(farm.patterns, "_patterns")
           \cup glob_stems(farm.contours, "_contour"))

-----------------------------------------------------------------------------
(* io_helpers.py: resolve_import_root. A directory is                      *)
(*   [name, universe |-> whether it holds universe.txt,                    *)
(*    known |-> whether it holds contour.txt or patterns.txt,              *)
(*    dirs |-> its subdirectories, in iterdir order]                       *)
(* and a directory below extract_dir is named by its path, the positions   *)
(* to follow from extract_dir: <<>> is extract_dir itself.                 *)

\* the directory names that occur, in the order of sorted()
DirNameOrder == <<"alpha", "beta", "contours", "farm", "north", "sub">>

NameRank(name) == CHOOSE i \in DOMAIN DirNameOrder : DirNameOrder[i] = name

RECURSIVE At(_, _)
At(dir, path) == IF path = <<>> THEN dir ELSE At(dir.dirs[Head(path)], Tail(path))

\* lines 39-53
_looks_like_cerea_field_dir(field_dir) ==
    field_dir.known \/ field_dir.dirs = <<>>

\* lines 56-63
_has_cerea_txt_farms(root_dir) ==
    \E i \in DOMAIN root_dir.dirs :
        \E j \in DOMAIN root_dir.dirs[i].dirs :
            _looks_like_cerea_field_dir(root_dir.dirs[i].dirs[j])

\* lines 93-98: a farm directory of the candidate holds patterns or contours
has_exported_farm(candidate) ==
    \E i \in DOMAIN candidate.dirs :
        \E j \in DOMAIN candidate.dirs[i].dirs :
            candidate.dirs[i].dirs[j].name \in {"patterns", "contours"}

\* lines 89-91: the subdirectories of the candidate that hold farms
nested_farm_roots(candidate) ==
    {i \in DOMAIN candidate.dirs : _has_cerea_txt_farms(candidate.dirs[i])}

\* line 91: sorted(nested_farm_roots, key=lambda p: p.name)[0]
first_by_name(candidate, roots) ==
    CHOOSE i \in roots :
        \A j \in roots : NameRank(candidate.dirs[i].name)
                            <= NameRank(candidate.dirs[j].name)

\* lines 82-91: what the loop body returns for one candidate, None when it
\* goes on to the next
cerea_txt_candidate(extract_dir, path) ==
    LET candidate == At(extract_dir, path)
    IN  IF ~candidate.universe THEN None
        ELSE IF _has_cerea_txt_farms(candidate) THEN Some(path)
        ELSE IF nested_farm_roots(candidate) # {}
             THEN Some(path \o <<first_by_name(candidate, nested_farm_roots(candidate))>>)
        ELSE None

\* lines 93-98
exported_candidate(extract_dir, path) ==
    IF has_exported_farm(At(extract_dir, path)) THEN Some(path) ELSE None

\* the first candidate of the list for which the loop body returns
RECURSIVE first_return(_, _, _)
first_return(extract_dir, import_mode, candidates) ==
    IF candidates = <<>> THEN None
    ELSE LET r == IF import_mode = "Cerea txt"
                  THEN cerea_txt_candidate(extract_dir, Head(candidates))
                  ELSE exported_candidate(extract_dir, Head(candidates))
         IN  IF r # None THEN r
             ELSE first_return(extract_dir, import_mode, Tail(candidates))

\* variant of resolve_import_root: extract_dir is the only candidate
resolve_import_root_no_search(extract_dir, import_mode) ==
    LET r == first_return(extract_dir, import_mode, << <<>> >>)
    IN  IF r # None THEN r[1] ELSE <<>>

\* lines 78-100: the path of the directory returned
resolve_import_root(extract_dir, import_mode) ==
    LET candidates == << <<>> >> \o [i \in DOMAIN extract_dir.dirs |-> <<i>>]
        r == first_return(extract_dir, import_mode, candidates)
    IN  IF r # None THEN r[1] ELSE <<>>

-----------------------------------------------------------------------------
(* The import root of the ledger specification: the field directories and  *)
(* what each may hold.                                                     *)

Keys == {"Cerea txt::farm::north"}

TrackNames == <<"A", "B", "C", "D">>

\* id,mode,name,x1,y1,z1,x2,y2,z2
Row(name, x1, y1, x2, y2) ==
    <<"1", "AB", name, Tok(x1), Tok(y1), Tok(0), Tok(x2), Tok(y2), Tok(0)>>

\* one track per id of TrackIds; the first is split over two rows
FullPatterns ==
    [i \in 1..(MaxTrackId + 2) |->
        IF i = 1 THEN Row(TrackNames[1], 0, 0, 10, 0)
        ELSE IF i = 2 THEN Row(TrackNames[1], 10, 0, 20, 0)
        ELSE Row(TrackNames[i - 1], 0, 5 * (i - 2), 20, 5 * (i - 2))]

\* a single track: every other id of TrackIds is not decoded
OnePattern == <<Row("Track1", 0, 0, 50, 0)>>

\* "0,0,0,100,0,0,100,100,0,0,100,0"
SquareContour ==
    <<Tok(0), Tok(0), Tok(0), Tok(100), Tok(0), Tok(0),
      Tok(100), Tok(100), Tok(0), Tok(0), Tok(100), Tok(0)>>

SourcePool ==
    {[contour |-> Some(ContourDoc(SquareContour)), patterns |-> Some(FullPatterns)],
     [contour |-> None, patterns |-> Some(OnePattern)]}

NewNames == {"X", ""}

OrderInputs == SeqsUpTo(TrackIds, MaxTrackId + 1)

-----------------------------------------------------------------------------
(* The ledger specification: the state_helpers calls in any order.         *)

Call(op, key, arg, val) == [op |-> op, key |-> key, arg |-> arg, val |-> val]

NoCall == Call("none", "", <<>>, <<>>)

ParseIdle ==
    /\ p_rows = <<>>
    /\ p_next = 0
    /\ pattern_points = <<>>
    /\ result = None
    /\ loaded_items = None

NoDoc == [json |-> "invalid", field |-> None]

DecodeIdle ==
    /\ c_doc = NoDoc
    /\ c_out = None
    /\ u_lines = <<>>
    /\ u_out = None

NoRoot == [universe |-> None, parent_universe |-> FALSE, farms |-> <<>>]

ImportIdle ==
    /\ root = NoRoot
    /\ import_out = None

NoHandler == [button |-> "none", raised |-> None]

ArchiveIdle ==
    /\ temp_dirs = {}
    /\ mkdtemp_count = 0
    /\ export_bundle = None
    /\ handler = NoHandler

ExtraIdle == DecodeIdle /\ ImportIdle /\ ArchiveIdle

Init ==
    /\ field_edits = EmptyDict
    /\ sources \in [Keys -> SourcePool]
    /\ ret = [call |-> NoCall, after |-> <<"none", "">>]
    /\ ParseIdle
    /\ ExtraIdle

\* ret.after: for ensure_field_state, the call before it (its name and key,
\* and for a reset whether it dropped an entry); not kept for other calls
Returned(call) == ret' = [call |-> call, after |-> <<"none", "">>]

DeleteTrackEdit(key, track_id) ==
    LET r == delete_track_edit(field_edits, key, track_id)
    IN  /\ field_edits' = r.field_edits
        /\ Returned(Call("delete_track_edit", key, <<track_id>>, r.ret))
        /\ UNCHANGED <<sources, parse_vars, extra_vars>>

RenameTrackEdit(key, track_id, new_name) ==
    /\ field_edits' = rename_track_edit(field_edits, key, track_id, new_name)
    /\ Returned(Call("rename_track_edit", key, <<track_id, new_name>>, <<>>))
    /\ UNCHANGED <<sources, parse_vars, extra_vars>>

SetTrackOrderEdit(key, ordered_track_ids) ==
    /\ field_edits' = set_track_order_edit(field_edits, key, ordered_track_ids)
    /\ Returned(Call("set_track_order_edit", key, ordered_track_ids, <<>>))
    /\ UNCHANGED <<sources, parse_vars, extra_vars>>

MarkFieldEditClean(key) ==
    /\ field_edits' = mark_field_edit_clean(field_edits, key)
    /\ Returned(Call("mark_field_edit_clean", key, <<>>, <<>>))
    /\ UNCHANGED <<sources, parse_vars, extra_vars>>

EnsureFieldState(key) ==
    LET r == ensure_field_state(field_edits, key, sources[key], Center)
    IN  /\ field_edits' = r.field_edits
        /\ ret' = [call |-> Call("ensure_field_state", key, <<>>, r.ret),
                   after |-> <<ret.call.op, ret.call.key>>
                             \o (IF ret.call.op = "reset_field_state"
                                 THEN <<ret.call.val>> ELSE <<>>)]
        /\ UNCHANGED <<sources, parse_vars, extra_vars>>

\* val: whether field_edits.pop(key, None) took an entry out
ResetFieldState(key) ==
    /\ field_edits' = reset_field_state(field_edits, key)
    /\ Returned(Call("reset_field_state", key, <<>>, key \in DOMAIN field_edits))
    /\ UNCHANGED <<sources, parse_vars, extra_vars>>

ResetAllFieldStates ==
    LET r == reset_all_field_states(field_edits, sources)
    IN  /\ field_edits' = r.field_edits
        /\ Returned(Call("reset_all_field_states", "", <<>>, r.ret))
        /\ UNCHANGED <<sources, parse_vars, extra_vars>>

\* the orders in which iterdir may list the field directories
Listings(keys) == {l \in [1..Cardinality(keys) -> keys] : Range(l) = keys}

ExportAllFields(listing) ==
    \E r \in {export_all_fields(field_edits, sources, listing, Center)} :
        /\ field_edits' = r.field_edits
        /\ Returned(Call("export_all_fields", "", listing, r.ret))
        /\ UNCHANGED <<sources, parse_vars, extra_vars>>

Next ==
    \/ \E key \in Keys, track_id \in TrackIds : DeleteTrackEdit(key, track_id)
    \/ \E key \in Keys, track_id \in TrackIds, new_name \in NewNames :
          RenameTrackEdit(key, track_id, new_name)
    \/ \E key \in Keys, ids \in OrderInputs : SetTrackOrderEdit(key, ids)
    \/ \E key \in Keys : MarkFieldEditClean(key)
    \/ \E key \in Keys : EnsureFieldState(key)
    \/ \E key \in Keys : ResetFieldState(key)
    \/ ResetAllFieldStates
    \/ \E listing \in Listings(Keys) : ExportAllFields(listing)

Spec == Init /\ [][Next]_vars

-----------------------------------------------------------------------------
(* The export specification: export_all_fields over two fields of a farm,  *)
(* with sources that decode, that do not, or that are missing; the one     *)
(* edit is the delete of the first track.                                  *)

ExportKeys == {"Cerea txt::farm::north", "Cerea txt::farm::south"}

ExportSourcePool ==
    {[contour |-> Some(ContourDoc(SquareContour)), patterns |-> Some(OnePattern)],
     [contour |-> None, patterns |-> None],
     [contour |-> None, patterns |-> Some(OnePattern)],
     [contour |-> None,
      patterns |-> Some(<<<<"1", "AB", "Track1", Tok(0), Tok(0)>>, <<"">>>>)],
     [contour |-> Some([json |-> "invalid", field |-> None]), patterns |-> None],
     [contour |-> Some(ContourDoc(<<Tok(0), Tok(0), Tok(0), Tok(100)>>)),
      patterns |-> Some(OnePattern)],
     [contour |-> Some([json |-> "object", field |-> None]), patterns |-> Some(<<>>)],
     [contour |-> Some([json |-> "object",
                        field |-> Some([str |-> FALSE, coords |-> <<>>])]),
      patterns |-> Some(OnePattern)]}

InitExport ==
    /\ field_edits = EmptyDict
    /\ sources \in [ExportKeys -> ExportSourcePool]
    /\ ret = [call |-> NoCall, after |-> <<"none", "">>]
    /\ ParseIdle
    /\ ExtraIdle

NextExport ==
    \/ \E key \in ExportKeys : DeleteTrackEdit(key, 0)
    \/ \E key \in ExportKeys : EnsureFieldState(key)
    \/ \E listing \in Listings(ExportKeys) : ExportAllFields(listing)

SpecExport == InitExport /\ [][NextExport]_vars

-----------------------------------------------------------------------------
(* The decoder specification: parse_patterns reads one file row by row,    *)
(* returns, and load_field_data numbers what it returned.                  *)

PatternNames == {"A", "B"}

\* a row of 12 parts: three triplets
Row3(name, t1, t2, t3) ==
    <<"1", "AB", name>> \o t1 \o t2 \o t3

Triplet(x, y) == <<Tok(x), Tok(y), Tok(0)>>
BadTriplet == <<BadTok, Tok(0), Tok(0)>>

RowPool ==
    UNION {{Row(n, 0, 0, 10, 0),
            Row(n, 10, 0, 20, 0),
            Row3(n, Triplet(0, 0), Triplet(10, 0), Triplet(20, 0)),
            Row3(n, Triplet(10, 0), BadTriplet, Triplet(0, 0)),
            \* 9 parts, one point only: x2 is not numeric
            <<"1", "AB", n, Tok(0), Tok(0), Tok(0), BadTok, Tok(0), Tok(0)>>,
            \* 7 parts
            <<"1", "AB", n, Tok(0), Tok(0), Tok(0), Tok(10)>>} : n \in PatternNames}
    \cup {<<"">>}

PatternFiles == SeqsUpTo(RowPool, MaxRows)

LedgerIdle ==
    /\ field_edits = EmptyDict
    /\ sources = [k \in Keys |-> [contour |-> None, patterns |-> None]]
    /\ ret = [call |-> NoCall, after |-> <<"none", "">>]

InitParse ==
    /\ LedgerIdle
    /\ p_rows \in PatternFiles
    /\ p_next = 1
    /\ pattern_points = <<>>
    /\ result = None
    /\ loaded_items = None
    /\ ExtraIdle

\* patterns.py lines 20-48: one turn of the loop
ReadRow ==
    /\ p_next \in DOMAIN p_rows
    /\ pattern_points' = pattern_row(pattern_points, p_rows[p_next], Center)
    /\ p_next' = p_next + 1
    /\ UNCHANGED <<p_rows, result, loaded_items, ledger_vars, extra_vars>>

\* patterns.py lines 50-55
ReturnResult ==
    /\ p_next = Len(p_rows) + 1
    /\ result = None
    /\ result' = Some(pattern_result(pattern_points))
    /\ UNCHANGED <<p_rows, p_next, pattern_points, loaded_items, ledger_vars, extra_vars>>

\* state_helpers.py lines 33-36
NumberLines ==
    /\ result # None
    /\ loaded_items = None
    /\ loaded_items' = Some([i \in DOMAIN result[1] |->
                              [id |-> i - 1, name |-> result[1][i][1],
                               geometry |-> result[1][i][2]]])
    /\ UNCHANGED <<p_rows, p_next, pattern_points, result, ledger_vars, extra_vars>>

NextParse == ReadRow \/ ReturnResult \/ NumberLines

SpecParse == InitParse /\ [][NextParse]_vars

-----------------------------------------------------------------------------
(* The contour specification: parse_contour, and load_field_data, on one   *)
(* contour.txt.                                                            *)

MaxCoords == 9

\* the i-th value of a contourTrueStr
CoordValue(i) == 10 * i

\* the strings of up to MaxCoords values, each value numeric or not
CoordStrings ==
    UNION {{[i \in 1..n |-> IF numeric[i] THEN Tok(CoordValue(i)) ELSE BadTok] :
               numeric \in [1..n -> BOOLEAN]} : n \in 1..MaxCoords}

ContourDocs ==
    {ContourDoc(coords) : coords \in CoordStrings}
    \cup {[json |-> "invalid", field |-> None],
          [json |-> "other", field |-> None],
          [json |-> "object", field |-> None],
          [json |-> "object", field |-> Some([str |-> FALSE, coords |-> <<>>])]}

InitContour ==
    /\ LedgerIdle
    /\ ParseIdle
    /\ c_doc \in ContourDocs
    /\ c_out = None
    /\ u_lines = <<>>
    /\ u_out = None
    /\ ImportIdle
    /\ ArchiveIdle

ParseContour ==
    /\ c_out = None
    /\ c_out' = Some([call |-> "parse_contour", val |-> parse_contour(c_doc, Center)])
    /\ UNCHANGED <<c_doc, u_lines, u_out, ledger_vars, parse_vars,
                   import_vars, archive_vars>>

LoadFieldData ==
    /\ c_out = None
    /\ c_out' = Some([call |-> "load_field_data",
                      val |-> load_field_data([contour |-> Some(c_doc),
                                               patterns |-> None], Center)])
    /\ UNCHANGED <<c_doc, u_lines, u_out, ledger_vars, parse_vars,
                   import_vars, archive_vars>>

NextContour == ParseContour \/ LoadFieldData

SpecContour == InitContour /\ [][NextContour]_vars

-----------------------------------------------------------------------------
(* The center specification: read_center on one universe.txt.              *)

MaxLines == 3

LinePool ==
    {<<Tok(500), Tok(800)>>, <<Tok(1), Tok(2)>>, BlankLine, <<BadTok>>,
     <<Tok(5)>>, <<Tok(1), Tok(2), Tok(3)>>, <<BadTok, Tok(2)>>,
     <<Tok(1), BadTok>>, <<Tok(1), EmptyTok>>}

UniverseFiles == SeqsUpTo(LinePool, MaxLines)

InitCenter ==
    /\ LedgerIdle
    /\ ParseIdle
    /\ c_doc = NoDoc
    /\ c_out = None
    /\ u_lines \in UniverseFiles
    /\ u_out = None
    /\ ImportIdle
    /\ ArchiveIdle

ReadCenter ==
    /\ u_out = None
    /\ u_out' = Some(read_center(u_lines))
    /\ UNCHANGED <<c_doc, c_out, u_lines, ledger_vars, parse_vars,
                   import_vars, archive_vars>>

NextCenter == ReadCenter

SpecCenter == InitCenter /\ [][NextCenter]_vars

-----------------------------------------------------------------------------
(* Properties of the contour and center specifications.                    *)

IsCoordString(doc) ==
    doc.json = "object" /\ doc.field # None /\ doc.field[1].str

\* the 1-based positions of the x and y values
ReadPositions(coords) == {i \in DOMAIN coords : i % 3 \in {1, 2}}

NonBlank(lines) == {i \in DOMAIN lines : lines[i] # BlankLine}

\* what read_center is to return for the line: its two numbers, or a failure
CenterOf(line) ==
    IF Len(line) = 2 /\ line[1].num /\ line[2].num
    THEN [raised |-> FALSE, center |-> <<line[1].v, line[2].v>>]
    ELSE [raised |-> TRUE, center |-> <<>>]

Outcome(r) == [raised |-> r.raised # None, center |-> r.center]

-----------------------------------------------------------------------------
(* The archive specification: the three export buttons of app.py (lines    *)
(* 1064-1134). A handler is one action; export_field, export_all_fields    *)
(* and create_export_zip_bytes each return or raise (an unreadable source, *)
(* a full disk), and an exception ends the script run where it is raised.  *)

MaxExports == 4

\* where the handler's run ends: "" (it runs to its end), "export" (in
\* export_field / export_all_fields) or "zip" (in create_export_zip_bytes)
Failures == {"", "export", "zip"}

EndOf(button, failure) ==
    [button |-> button,
     raised |-> IF failure = "" THEN None ELSE Some(failure)]

\* lines 1065-1081 (current field) and 1084-1095 (all fields): mkdtemp,
\* export, zip, rmtree, export_bundle
PrepareExport(button, failure) ==
    /\ mkdtemp_count < MaxExports
    /\ mkdtemp_count' = mkdtemp_count + 1
    /\ temp_dirs' = IF failure = "" THEN temp_dirs
                    ELSE temp_dirs \cup {mkdtemp_count + 1}
    /\ export_bundle' = IF failure = "" THEN Some(button) ELSE export_bundle
    /\ handler' = EndOf(button, failure)
    /\ UNCHANGED <<ledger_vars, parse_vars, decode_vars, import_vars>>

PrepareCurrentField(failure) == PrepareExport("current field", failure)

PrepareAllFields(failure) == PrepareExport("all fields", failure)

\* lines 1098-1134: changed is the number of dirty entries, in_mode the
\* number of those whose key is of the import mode in use
PrepareAllChanges(changed, in_mode, failure) ==
    /\ in_mode <= changed
    /\ failure = "export" => in_mode > 0
    /\ failure = "zip" => in_mode > 0
    /\ IF changed = 0
       THEN /\ handler' = EndOf("all changes", "")
            /\ UNCHANGED <<temp_dirs, mkdtemp_count, export_bundle>>
       ELSE /\ mkdtemp_count < MaxExports
            /\ mkdtemp_count' = mkdtemp_count + 1
            /\ temp_dirs' = IF failure = "" THEN temp_dirs
                            ELSE temp_dirs \cup {mkdtemp_count + 1}
            /\ export_bundle' = IF failure = "" /\ in_mode > 0
                                THEN Some("all changes") ELSE export_bundle
            /\ handler' = EndOf("all changes", failure)
    /\ UNCHANGED <<ledger_vars, parse_vars, decode_vars, import_vars>>

InitArchive ==
    /\ LedgerIdle
    /\ ParseIdle
    /\ DecodeIdle
    /\ ImportIdle
    /\ ArchiveIdle

NextArchive ==
    \/ \E failure \in Failures : PrepareCurrentField(failure)
    \/ \E failure \in Failures : PrepareAllFields(failure)
    \/ \E changed \in 0..2, in_mode \in 0..2, failure \in Failures :
          PrepareAllChanges(changed, in_mode, failure)

SpecArchive == InitArchive /\ [][NextArchive]_vars

\* C15: when an export handler has ended, by its last line or by an
\* exception, no temporary export directory is left.
C15_TempDirsDeleted == temp_dirs = {}

-----------------------------------------------------------------------------
(* Properties of the patterns specification.                               *)

\* the 1-based positions of a row's x parts: 4, 7, 10, ...
TripletStarts(parts) == {j \in 4..(Len(parts) - 2) : (j - 4) % 3 = 0}

\* the row adds points: 9 fields or more, and 2 or more numeric points
Contributes(parts) ==
    /\ Len(parts) >= 9
    /\ Cardinality({j \in TripletStarts(parts) : parts[j].num /\ parts[j + 1].num}) >= 2

Names(rows) == {rows[i][3] : i \in {j \in DOMAIN rows : Contributes(rows[j])}}

\* the first row in which the name stands in the name field
FirstAppearance(rows, name) ==
    CHOOSE i \in DOMAIN rows :
        /\ Len(rows[i]) >= 3 /\ rows[i][3] = name
        /\ \A j \in 1..(i - 1) : ~(Len(rows[j]) >= 3 /\ rows[j][3] = name)

\* the first row of the name that adds points
FirstContribution(rows, name) ==
    CHOOSE i \in DOMAIN rows :
        /\ Contributes(rows[i]) /\ rows[i][3] = name
        /\ \A j \in 1..(i - 1) : ~(Contributes(rows[j]) /\ rows[j][3] = name)

\* one track per name with points, ids 0, 1, 2, ... in list order
OneTrackPerName(items, rows) ==
    /\ \A i \in DOMAIN items : items[i].id = i - 1
    /\ {items[i].name : i \in DOMAIN items} = Names(rows)
    /\ Len(items) = Cardinality(Names(rows))
    /\ \A i \in DOMAIN items : Len(items[i].geometry) >= 2

\* C9, as stated: one track per name with at least 2 points, in the order
\* in which the names first appear in the file, numbered 0, 1, 2, ...
C9_OrderByFirstAppearance ==
    loaded_items # None =>
        LET items == loaded_items[1]
        IN  /\ OneTrackPerName(items, p_rows)
            /\ \A a, b \in DOMAIN items :
                  a < b => FirstAppearance(p_rows, items[a].name)
                              < FirstAppearance(p_rows, items[b].name)

\* C9, amended: one track per name with at least 2 points, in the order of
\* the first row of each name that adds points (a row that is skipped does
\* not count as an appearance), numbered 0, 1, 2, ...; this is the list
\* load_field_data returns.
C9_OrderByFirstContribution ==
    loaded_items # None =>
        LET items == loaded_items[1]
        IN  /\ OneTrackPerName(items, p_rows)
            /\ \A a, b \in DOMAIN items :
                  a < b => FirstContribution(p_rows, items[a].name)
                              < FirstContribution(p_rows, items[b].name)
            /\ result[1] = parse_patterns(p_rows, Center)
            /\ items = load_field_data([contour |-> None, patterns |-> Some(p_rows)],
                                       Center).line_items

\* a file whose first row is skipped and names the track that comes second
C9_Witness ==
    /\ loaded_items # None
    /\ Len(loaded_items[1]) = 2
    /\ Len(p_rows[1]) >= 3
    /\ ~Contributes(p_rows[1])
    /\ p_rows[1][3] = loaded_items[1][2].name

JunctionFile == <<Row("A", 0, 0, 10, 0), Row("A", 10, 0, 20, 0)>>

\* C10: a later row of a name is appended without its first point exactly
\* when that point equals the last point accumulated for the name; the rows
\* (0,0),(10,0) and (10,0),(20,0) of one name give three points.
C10_JunctionDroppedOnce ==
    [][/\ \A name \in PatternNames :
             LET i == KeyIndex(pattern_points, name)
             IN  (/\ p_next' = p_next + 1
                  /\ Contributes(p_rows[p_next])
                  /\ p_rows[p_next][3] = name
                  /\ i # 0)
                    => LET old == pattern_points[i].points
                           new == pattern_points'[i].points
                           rp == row_points(p_rows[p_next], Center)
                       IN  IF old[Len(old)] = rp[1]
                           THEN new = old \o Tail(rp)
                           ELSE new = old \o rp
       /\ (loaded_items' # None /\ p_rows' = JunctionFile)
             => loaded_items'[1] =
                   << [id |-> 0, name |-> "A",
                       geometry |-> << <<Center[1], Center[2]>>,
                                       <<Center[1] + 10, Center[2]>>,
                                       <<Center[1] + 20, Center[2]>> >>] >>
      ]_vars

\* the two-row file read to its end, and its track of three points
C10_Witness ==
    /\ p_rows = JunctionFile
    /\ loaded_items # None
    /\ Len(loaded_items[1][1].geometry) = 3

-----------------------------------------------------------------------------
(* Properties of the export specification.                                 *)

Skipped ==
    {"Skipped: no source files found",
     "Skipped: no usable contour or patterns data"}

\* the reconciled result of the field: what ensure_field_state returns
FieldResult(key) == ensure_field_state(field_edits, key, sources[key], Center).ret

\* no polygon and no track
IsEmptyField(key) ==
    LET r == FieldResult(key)
    IN  r.raised = None /\ r.polygon = None /\ r.line_items = <<>>

\* C13: load_field_data lets no decode failure of an existing source
\* through: ensure_field_state and export_all_fields end without an
\* exception, and export_all_fields reaches every field of the listing.
C13_DecodeFailuresBecomeNotes ==
    /\ ret.call.op = "ensure_field_state" => ret.call.val.raised = None
    /\ ret.call.op = "export_all_fields"
          => /\ ret.call.val.raised = None
             /\ DOMAIN ret.call.val.report = DOMAIN sources

\* C14: in an export that ends without an exception, a field with no
\* polygon and no track is not handed to export_field and not counted, has
\* exactly one "Skipped" line in the report, and every other field is
\* exported, before or after it in the listing.
C14_EmptyFieldSkipped ==
    (ret.call.op = "export_all_fields" /\ ret.call.val.raised = None)
       => LET val == ret.call.val
          IN  /\ val.exported_count = Cardinality(DOMAIN val.exported)
              /\ \A key \in DOMAIN sources :
                    IF IsEmptyField(key)
                    THEN /\ key \notin DOMAIN val.exported
                         /\ Cardinality({i \in DOMAIN val.report[key] :
                                            val.report[key][i] \in Skipped}) = 1
                    ELSE /\ key \in DOMAIN val.exported
                         /\ \A i \in DOMAIN val.report[key] :
                               val.report[key][i] \notin Skipped

\* the field listed first has a track, which is deleted, and no contour; the
\* field listed second is exported
C14_Witness ==
    /\ ret.call.op = "export_all_fields"
    /\ ret.call.val.raised = None
    /\ ret.call.val.exported_count = 1
    /\ LET first == ret.call.arg[1]
       IN  /\ first \in DOMAIN field_edits
           /\ field_edits[first].deleted_ids # <<>>
           /\ sources[first].patterns = Some(OnePattern)
           /\ IsEmptyField(first)
           /\ ret.call.arg[2] \in DOMAIN ret.call.val.exported

-----------------------------------------------------------------------------
(* Properties of the ledger specification.                                 *)

Ids(items) == [i \in DOMAIN items |-> items[i].id]

Decoded(key) == load_field_data(sources[key], Center).line_items

DeletedIn(fe, key) ==
    IF key \in DOMAIN fe THEN Range(fe[key].deleted_ids) ELSE {}

IsCall(r, op, key) == r.call.op = op /\ r.call.key = key

\* the reconciled track lists the call r handed out for key: the list
\* ensure_field_state returned, or the list export_all_fields exported
Reconciled(r, key) ==
    IF IsCall(r, "ensure_field_state", key) THEN {r.call.val.line_items}
    ELSE IF r.call.op = "export_all_fields" /\ key \in DOMAIN r.call.val.exported
         THEN {r.call.val.exported[key].line_items}
    ELSE {}

\* C1: whatever the ledger entry (order partial, stale or absent), a
\* reconciliation returns every decoded id that is not deleted exactly once
\* and no id that is not decoded.
C1_ReconcileEveryIdOnce ==
    \A key \in Keys : \A out \in Reconciled(ret, key) :
        /\ Range(Ids(out)) = Range(Ids(Decoded(key))) \ DeletedIn(field_edits, key)
        /\ Cardinality(Range(Ids(out))) = Len(out)

\* a stored order that names an id that is not decoded and misses a decoded
\* id, with a deleted id, reconciled to a non-empty list
C1_Witness ==
    \E key \in Keys :
        /\ IsCall(ret, "ensure_field_state", key)
        /\ key \in DOMAIN field_edits
        /\ field_edits[key].order # None
        /\ Range(field_edits[key].order[1]) \ Range(Ids(Decoded(key))) # {}
        /\ Range(Ids(Decoded(key))) \ Range(field_edits[key].order[1]) # {}
        /\ field_edits[key].deleted_ids # <<>>
        /\ ret.call.val.line_items # <<>>

\* C2: from the delete_track_edit(key, t) call on, t stays in deleted_ids
\* until a reset, whatever edit or export follows, and no reconciliation of
\* the key returns t, so a rename of t never shows.
C2_DeletedStaysOut ==
    [][\A key \in Keys, t \in TrackIds :
          /\ (IsCall(ret', "delete_track_edit", key) /\ ret'.call.arg = <<t>>)
                => t \in DeletedIn(field_edits', key)
          /\ (/\ t \in DeletedIn(field_edits, key)
              /\ ret'.call.op \notin {"reset_field_state", "reset_all_field_states"})
                => t \in DeletedIn(field_edits', key)
          /\ t \in DeletedIn(field_edits', key)
                => \A out \in Reconciled(ret', key) : t \notin Range(Ids(out))
      ]_vars

\* a decoded track, deleted, then renamed and put in the order again, and
\* the field reconciled
C2_Witness ==
    \E key \in Keys, t \in TrackIds :
        /\ IsCall(ret, "ensure_field_state", key)
        /\ t \in DeletedIn(field_edits, key)
        /\ t \in Range(Ids(Decoded(key)))
        /\ t \in DOMAIN field_edits[key].renamed
        /\ field_edits[key].order # None
        /\ t \in Range(field_edits[key].order[1])
        /\ ret.call.val.line_items # <<>>

\* C3: ensure_field_state right after reset_field_state of the same key
\* returns the decoded tracks as decoded (ids, order, names) and dirty = false.
C3_ResetThenEnsureIsDecode ==
    \A key \in Keys :
        (/\ IsCall(ret, "ensure_field_state", key)
         /\ ret.after[1] = "reset_field_state"
         /\ ret.after[2] = key)
            => /\ ret.call.val.line_items = Decoded(key)
               /\ ret.call.val.dirty = FALSE

\* the reset dropped an entry, and there are decoded tracks to return
C3_Witness ==
    \E key \in Keys :
        /\ IsCall(ret, "ensure_field_state", key)
        /\ ret.after = <<"reset_field_state", key, TRUE>>
        /\ Len(ret.call.val.line_items) > 1

\* C4: ensure_field_state changes neither the ledger nor the sources, and
\* called again for the same key with no call in between returns the same.
C4_EnsureIsPure ==
    [][\A key \in Keys :
          IsCall(ret', "ensure_field_state", key)
             => /\ field_edits' = field_edits
                /\ sources' = sources
                /\ IsCall(ret, "ensure_field_state", key)
                      => ret'.call.val = ret.call.val
      ]_vars

\* a second ensure_field_state of a field with reorder, rename and delete
C4_Witness ==
    \E key \in Keys :
        /\ IsCall(ret, "ensure_field_state", key)
        /\ ret.after = <<"ensure_field_state", key>>
        /\ key \in DOMAIN field_edits
        /\ field_edits[key].order # None
        /\ field_edits[key].renamed # EmptyDict
        /\ field_edits[key].deleted_ids # <<>>
        /\ field_edits[key].dirty
        /\ ret.call.val.line_items # <<>>

\* C5: the first delete_track_edit(key, t) records t, purges it from renamed
\* and order, sets dirty and returns true; a later one returns false and
\* changes nothing.
C5_DeleteIdempotent ==
    [][\A key \in Keys, t \in TrackIds :
          (IsCall(ret', "delete_track_edit", key) /\ ret'.call.arg = <<t>>)
             => IF t \in DeletedIn(field_edits, key)
                THEN /\ ret'.call.val = FALSE
                     /\ field_edits' = field_edits
                ELSE /\ ret'.call.val = TRUE
                     /\ t \in DeletedIn(field_edits', key)
                     /\ t \notin DOMAIN field_edits'[key].renamed
                     /\ field_edits'[key].order # None
                           => t \notin Range(field_edits'[key].order[1])
                     /\ field_edits'[key].dirty = TRUE
      ]_vars

\* a repeated delete on an entry that was exported (dirty = false) and that
\* holds an order and a rename
C5_Witness ==
    \E key \in Keys :
        /\ IsCall(ret, "delete_track_edit", key)
        /\ ret.call.val = FALSE
        /\ field_edits[key].dirty = FALSE
        /\ field_edits[key].order # None
        /\ field_edits[key].renamed # EmptyDict

\* the entry holds a delta: an order, a rename or a deleted id
NonDefault(entry) ==
    \/ entry.order # None
    \/ entry.renamed # EmptyDict
    \/ entry.deleted_ids # <<>>

Deltas(entry) == <<entry.order, entry.renamed, entry.deleted_ids>>

\* C6, as stated: the dirty flag of an entry is true exactly when one of
\* order, renamed, deleted_ids is not at its default.
C6_DirtyIffDelta ==
    \A key \in DOMAIN field_edits :
        field_edits[key].dirty <=> NonDefault(field_edits[key])

\* C6, amended: dirty is true only if a delta is not at its default. Every
\* recorded edit sets dirty; mark_field_edit_clean and the export of the field
\* set it to false and keep the deltas, so the converse does not hold.
C6_DirtyOnlyIfDelta ==
    [][\A key \in Keys :
          /\ (key \in DOMAIN field_edits' /\ field_edits'[key].dirty)
                => NonDefault(field_edits'[key])
          /\ (\/ IsCall(ret', "rename_track_edit", key)
              \/ IsCall(ret', "set_track_order_edit", key)
              \/ IsCall(ret', "delete_track_edit", key) /\ ret'.call.val = TRUE)
                => field_edits'[key].dirty
          /\ (/\ key \in DOMAIN field_edits
              /\ \/ IsCall(ret', "mark_field_edit_clean", key)
                 \/ /\ ret'.call.op = "export_all_fields"
                    /\ key \in DOMAIN ret'.call.val.exported)
                => /\ ~field_edits'[key].dirty
                   /\ Deltas(field_edits'[key]) = Deltas(field_edits[key])
      ]_vars

\* a dirty entry whose only delta is an order that is the empty list
C6_Witness ==
    \E key \in DOMAIN field_edits :
        /\ IsCall(ret, "set_track_order_edit", key)
        /\ field_edits[key].dirty
        /\ field_edits[key].order = Some(<<>>)
        /\ field_edits[key].renamed = EmptyDict
        /\ field_edits[key].deleted_ids = <<>>

\* C7: a ledger entry has the keys order, renamed, deleted_ids and dirty and
\* no other: no polygon, no line_items, no geometry.
C7_EntryIsDeltaOnly ==
    \A key \in DOMAIN field_edits : DOMAIN field_edits[key] = EditKeys

\* an entry of a field just loaded with a polygon and tracks
C7_Witness ==
    \E key \in DOMAIN field_edits :
        /\ IsCall(ret, "ensure_field_state", key)
        /\ ret.call.val.polygon # None
        /\ ret.call.val.line_items # <<>>
        /\ field_edits[key].renamed # EmptyDict

\* C8: a rename to a name that is empty after trimming is rejected: the
\* ledger is left as it was.
C8_BlankRenameRejected ==
    [][\A key \in Keys :
          (IsCall(ret', "rename_track_edit", key) /\ ret'.call.arg[2] = "")
             => field_edits' = field_edits
      ]_vars

\* C16: the patterns file export_field writes has one row per track it was
\* given, in that order, with the track's id and name; in an export the
\* rows are the reconciled tracks of the field, in their effective order.
C16_RowsInEffectiveOrder ==
    ret.call.op = "export_all_fields" =>
        \A key \in DOMAIN ret.call.val.exported :
            LET items == FieldResult(key).line_items
                files == ret.call.val.exported[key].files
            IN  IF items = <<>> THEN files.patterns = None
                ELSE /\ files.patterns # None
                     /\ Len(files.patterns[1]) = Len(items)
                     /\ \A i \in DOMAIN items :
                           /\ files.patterns[1][i].id = items[i].id
                           /\ files.patterns[1][i].name = items[i].name
                           /\ files.patterns[1][i].geometry = to_crs(items[i].geometry)

\* an export of a field whose tracks were reordered and renamed: the row of
\* the higher id comes first
C16_Witness ==
    /\ ret.call.op = "export_all_fields"
    /\ \E key \in DOMAIN ret.call.val.exported :
          LET files == ret.call.val.exported[key].files
          IN  /\ files.patterns # None
              /\ Len(files.patterns[1]) = 2
              /\ files.patterns[1][1].id > files.patterns[1][2].id
              /\ field_edits[key].renamed # EmptyDict
              /\ files.patterns[1][1].name = "X"

-----------------------------------------------------------------------------
(* The import specification: an import root is validated, or converted     *)
(* by the legacy pipeline.                                                 *)

MaxFarms == 2

ImportModes == {"Cerea txt", "Exported shp"}

FarmNames == <<"farm_a", "farm_b", "farm_c", "farm_d">>

GoodUniverse == << <<Tok(Center[1]), Tok(Center[2])>> >>

\* the field directories a farm may hold: none, one good field, a field
\* without contour.txt, a good field followed by one whose contour.txt does
\* not decode
FieldLists ==
    { <<>>,
      <<[contour |-> Some(ContourDoc(SquareContour)), patterns |-> Some(OnePattern)]>>,
      <<[contour |-> None, patterns |-> Some(OnePattern)]>>,
      <<[contour |-> Some(ContourDoc(SquareContour)), patterns |-> None],
        [contour |-> Some(NoDoc), patterns |-> None]>> }

\* directory names are distinct: the i-th directory is FarmNames[i], or the
\* one __pycache__
FarmLists ==
    { fs \in SeqsUpTo([name : Range(FarmNames) \cup {"__pycache__"},
                       fields : FieldLists], MaxFarms) :
        /\ \A i \in DOMAIN fs : fs[i].name \in {FarmNames[i], "__pycache__"}
        /\ \A i, j \in DOMAIN fs : fs[i].name = fs[j].name => i = j }

ImportRoots ==
    [universe : {None, Some(GoodUniverse), Some(<<BlankLine>>)},
     parent_universe : BOOLEAN,
     farms : FarmLists]

InitImport ==
    /\ LedgerIdle
    /\ ParseIdle
    /\ DecodeIdle
    /\ ArchiveIdle
    /\ root \in ImportRoots
    /\ import_out = None

ValidateImportStructure(import_mode) ==
    /\ import_out' = Some([call |-> "validate_import_structure",
                           import_mode |-> import_mode,
                           val |-> validate_import_structure(import_mode, root)])
    /\ UNCHANGED <<root, ledger_vars, parse_vars, decode_vars, archive_vars>>

ProcessCereaRoot ==
    /\ import_out' = Some([call |-> "process_cerea_root",
                           import_mode |-> "Cerea txt",
                           val |-> process_cerea_root(root)])
    /\ UNCHANGED <<root, ledger_vars, parse_vars, decode_vars, archive_vars>>

NextImport ==
    \/ \E import_mode \in ImportModes : ValidateImportStructure(import_mode)
    \/ ProcessCereaRoot

SpecImport == InitImport /\ [][NextImport]_vars

NoFarms == root.farms = <<>>

\* neither root/universe.txt nor root.parent/universe.txt exists
Unresolved == root.universe = None /\ ~root.parent_universe

Validated == import_out # None /\ import_out[1].call = "validate_import_structure"

Processed == import_out # None /\ import_out[1].call = "process_cerea_root"

Blocking ==
    \/ NoFarms
    \/ import_out[1].import_mode = "Cerea txt" /\ Unresolved

\* C17 as stated: with no farm directory, or (legacy mode) no universe.txt
\* to resolve, validate_import_structure reports a blocking issue and
\* process_cerea_root raises having written nothing; validate_import_structure
\* reports nothing else as blocking.
C17_FatalRaises ==
    /\ Validated => (import_out[1].val.issues # <<>> <=> Blocking)
    /\ Processed /\ Blocking =>
          /\ import_out[1].val.raised # None
          /\ import_out[1].val.written = <<>>

\* C17: validate_import_structure reports a blocking issue exactly when the
\* root has no farm directory, or (legacy mode) universe.txt is neither in
\* the root nor in its parent. process_cerea_root raises FileNotFoundError
\* having written nothing when the root holds no universe.txt; with no farm
\* directory it writes nothing, and it returns without raising when
\* universe.txt is readable.
C17_FatalWritesNothing ==
    /\ Validated => (import_out[1].val.issues # <<>> <=> Blocking)
    /\ Processed =>
          /\ root.universe = None =>
                /\ import_out[1].val.raised = Some("FileNotFoundError")
                /\ import_out[1].val.written = <<>>
          /\ NoFarms => import_out[1].val.written = <<>>
          /\ NoFarms /\ root.universe = Some(GoodUniverse) =>
                import_out[1].val.raised = None

C17_Witness ==
    /\ Processed
    /\ NoFarms
    /\ root.universe = Some(GoodUniverse)
    /\ import_out[1].val.raised = None
    /\ import_out[1].val.written = <<>>

-----------------------------------------------------------------------------
(* The order specification: one field of MaxOrderId + 1 decoded tracks;    *)
(* tracks are deleted, the order is set, and the field is viewed.          *)

MaxOrderId == 2

OrderTrackIds == 0..MaxOrderId

\* an id no track of the field carries
StaleId == MaxOrderId + 1

ManyPatterns ==
    [i \in 1..(MaxOrderId + 1) |-> Row(TrackNames[i], 0, 5 * i, 20, 5 * i)]

\* the lists the editor may hand to set_track_order_edit: short lists, with
\* repeated and stale ids, and the full orders
ManyOrderInputs ==
    SeqsUpTo(OrderTrackIds \cup {StaleId}, 2) \cup Listings(OrderTrackIds)

InitOrder ==
    /\ field_edits = EmptyDict
    /\ sources = [k \in Keys |-> [contour |-> Some(ContourDoc(SquareContour)),
                                  patterns |-> Some(ManyPatterns)]]
    /\ ret = [call |-> NoCall, after |-> <<"none", "">>]
    /\ ParseIdle
    /\ ExtraIdle

NextOrder ==
    \/ \E key \in Keys, track_id \in OrderTrackIds : DeleteTrackEdit(key, track_id)
    \/ \E key \in Keys, ids \in ManyOrderInputs : SetTrackOrderEdit(key, ids)
    \/ \E key \in Keys : EnsureFieldState(key)

SpecOrder == InitOrder /\ [][NextOrder]_vars

\* the order list of the ledger entry of key; empty without one
LedgerOrder(key) ==
    IF key \in DOMAIN field_edits /\ field_edits[key].order # None
    THEN field_edits[key].order[1]
    ELSE <<>>

\* the first position of x in seq
Pos(seq, x) == CHOOSE i \in DOMAIN seq : seq[i] = x /\ \A j \in 1..(i - 1) : seq[j] # x

\* a stands before b: by the ledger's order when it mentions a, and by the
\* decode order when it mentions neither
Before(ledger, decoded, a, b) ==
    IF a \in Range(ledger)
    THEN b \in Range(ledger) => Pos(ledger, a) < Pos(ledger, b)
    ELSE b \notin Range(ledger) /\ Pos(decoded, a) < Pos(decoded, b)

\* C18: the ids a reconciliation returns are the decoded ids that are not
\* deleted; those the ledger's order mentions come first, in ledger order,
\* the others follow in decode order.
C18_LedgerOrderThenDecodeOrder ==
    ret.call.op = "ensure_field_state" =>
        LET key == ret.call.key
            out == Ids(ret.call.val.line_items)
            decoded == Ids(Decoded(key))
        IN  /\ Range(out) = Range(decoded) \ DeletedIn(field_edits, key)
            /\ \A i, j \in DOMAIN out :
                  i < j => /\ out[i] # out[j]
                           /\ Before(LedgerOrder(key), decoded, out[i], out[j])

\* a deleted track, an order that mentions a stale id and one of the two
\* remaining tracks, which comes out first although it is decoded last
C18_Witness ==
    /\ ret.call.op = "ensure_field_state"
    /\ LET key == ret.call.key
           out == Ids(ret.call.val.line_items)
       IN  /\ Len(Decoded(key)) = MaxOrderId + 1
           /\ DeletedIn(field_edits, key) # {}
           /\ StaleId \in Range(LedgerOrder(key))
           /\ Len(out) = 2
           /\ out[1] > out[2]
           /\ out[1] \in Range(LedgerOrder(key))
           /\ out[2] \notin Range(LedgerOrder(key))

\* the renamed dict of the ledger entry of key; empty without one
RenamedIn(fe, key) == IF key \in DOMAIN fe THEN fe[key].renamed ELSE EmptyDict

\* the decoded track that carries track_id
DecodedTrack(decoded, track_id) ==
    decoded[CHOOSE i \in DOMAIN decoded : decoded[i].id = track_id]

\* the names stored for key after a rename are those stored before it, with
\* the new name for the renamed id
RenameStored(key) ==
    IsCall(ret', "rename_track_edit", key) =>
        LET track_id == ret'.call.arg[1]
            new_name == ret'.call.arg[2]
        IN  /\ DOMAIN RenamedIn(field_edits', key)
                  = DOMAIN RenamedIn(field_edits, key) \cup {track_id}
            /\ \A t \in DOMAIN RenamedIn(field_edits', key) :
                  RenamedIn(field_edits', key)[t]
                     = IF t = track_id THEN new_name
                       ELSE RenamedIn(field_edits, key)[t]

\* every returned track is a decoded track, under the name stored for its
\* id if there is one and under its decoded name otherwise
NamedByLedger(key) ==
    \A items \in Reconciled(ret, key) :
        LET decoded == Decoded(key)
            renamed == RenamedIn(field_edits, key)
        IN  \A i \in DOMAIN items :
               /\ items[i].id \in Range(Ids(decoded))
               /\ items[i].name = IF items[i].id \in DOMAIN renamed
                                  THEN renamed[items[i].id]
                                  ELSE DecodedTrack(decoded, items[i].id).name
               /\ items[i].geometry = DecodedTrack(decoded, items[i].id).geometry

\* C19: rename_track_edit stores the new name for the id, over any name
\* stored before, and leaves the names of the other ids alone; every track
\* a reconciliation returns is a decoded track, with the name stored in
\* renamed for its id if there is one and its decoded name otherwise, and
\* with its decoded geometry.
C19_NameFromLatestRename ==
    /\ [](\A key \in Keys : NamedByLedger(key))
    /\ [][\A key \in Keys : RenameStored(key)]_vars

\* the view that follows a rename: one track is returned under the name
\* given to it in place of its decoded name, another under its decoded name
C19_Witness ==
    \E key \in Keys :
        /\ IsCall(ret, "ensure_field_state", key)
        /\ ret.after = <<"rename_track_edit", key>>
        /\ \E i, j \in DOMAIN ret.call.val.line_items :
              LET a == ret.call.val.line_items[i]
                  b == ret.call.val.line_items[j]
              IN  /\ a.id \in DOMAIN field_edits[key].renamed
                  /\ a.name = "X"
                  /\ DecodedTrack(Decoded(key), a.id).name # "X"
                  /\ b.id \notin DOMAIN field_edits[key].renamed
                  /\ b.name = DecodedTrack(Decoded(key), b.id).name

\* the calls that edit a field
EditOps == {"delete_track_edit", "rename_track_edit", "set_track_order_edit"}

\* C20: the ledger starts empty; a key gets an entry only by an edit call
\* on that key; ensure_field_state on a key without an entry leaves it
\* without one; reset_field_state(key) leaves key without an entry, and it
\* stays so until the next edit on it.
C20_EntryOnlyAfterEdit ==
    /\ field_edits = EmptyDict
    /\ [][\A key \in Keys :
             /\ (key \notin DOMAIN field_edits /\ key \in DOMAIN field_edits')
                   => (ret'.call.op \in EditOps /\ ret'.call.key = key)
             /\ (IsCall(ret', "ensure_field_state", key) /\ key \notin DOMAIN field_edits)
                   => key \notin DOMAIN field_edits'
             /\ IsCall(ret', "reset_field_state", key)
                   => key \notin DOMAIN field_edits'
         ]_vars

\* a field viewed right after the reset that dropped its entry: it has none
C20_Witness ==
    \E key \in Keys :
        /\ IsCall(ret, "ensure_field_state", key)
        /\ ret.after = <<"reset_field_state", key, TRUE>>
        /\ key \notin DOMAIN field_edits

-----------------------------------------------------------------------------
(* Rows of a pattern file that are malformed.                              *)

\* the row has 9 fields or more and a coordinate field that is not numeric
HasBadCoord(parts) ==
    /\ Len(parts) >= 9
    /\ \E j \in 4..Len(parts) : ~parts[j].num

\* the points of the row's triplets whose x and y are numeric, in row order
GoodPoints(parts, center) ==
    LET starts == [k \in 1..((Len(parts) - 3) \div 3) |-> 3 * k + 1]
        good == SelectSeq(starts, LAMBDA j : parts[j].num /\ parts[j + 1].num)
    IN  [k \in DOMAIN good |->
            <<center[1] + parts[good[k]].v, center[2] + parts[good[k] + 1].v>>]

\* pattern_points[name]; empty when name is not a key
PointsOf(pp, name) ==
    IF KeyIndex(pp, name) = 0 THEN <<>> ELSE pp[KeyIndex(pp, name)].points

\* the row just read
RowRead == p_rows[p_next]

\* C21, as stated: a row with a coordinate that is not numeric is dropped as
\* a whole: pattern_points is after the row what it was before it.
C21_BadRowDropped ==
    [][(p_next' = p_next + 1 /\ HasBadCoord(RowRead))
          => pattern_points' = pattern_points]_vars

\* C21, amended: of a row with a coordinate that is not numeric, the
\* triplets whose x and y are numeric are kept: when they are 2 or more
\* they are added to the row's track (the junction point once), when they
\* are fewer the row adds nothing; the other tracks are left alone.
C21_BadTripletDropped ==
    [][(p_next' = p_next + 1 /\ HasBadCoord(RowRead)) =>
          LET good == GoodPoints(RowRead, Center)
              name == RowRead[3]
              old == PointsOf(pattern_points, name)
              new == PointsOf(pattern_points', name)
          IN  /\ \A n \in PatternNames \ {name} :
                    PointsOf(pattern_points', n) = PointsOf(pattern_points, n)
              /\ IF Len(good) < 2 THEN pattern_points' = pattern_points
                 ELSE IF old # <<>> /\ old[Len(old)] = good[1]
                      THEN new = old \o Tail(good)
                      ELSE new = old \o good
      ]_vars

\* the first row has three triplets, the second not numeric: the track
\* holds the points of the first and the third
C21_Witness ==
    /\ p_next = 2
    /\ HasBadCoord(p_rows[1])
    /\ Len(p_rows[1]) = 12
    /\ Len(GoodPoints(p_rows[1], Center)) = 2
    /\ pattern_points = <<[name |-> p_rows[1][3],
                           points |-> GoodPoints(p_rows[1], Center)]>>

\* the rows of 9 fields or more
LongRows(rows) == SelectSeq(rows, LAMBDA parts : Len(parts) >= 9)

\* C22: a row of fewer than 9 fields leaves pattern_points as it was (no
\* point, no name), and what parse_patterns returns for the file is what
\* it returns for the file without these rows.
C22_ShortRowSkipped ==
    /\ [](result # None => result[1] = parse_patterns(LongRows(p_rows), Center))
    /\ [][(p_next' = p_next + 1 /\ Len(RowRead) < 9)
             => pattern_points' = pattern_points]_vars

\* a row of 7 fields read after a row that made a track, and before one
\* that extends it
C22_Witness ==
    /\ result # None
    /\ Len(p_rows) = 3
    /\ Len(p_rows[2]) = 7
    /\ Contributes(p_rows[1])
    /\ Contributes(p_rows[3])
    /\ p_rows[1][3] = p_rows[2][3]
    /\ Len(result[1]) = 1
    /\ Len(result[1][1][2]) > 2

-----------------------------------------------------------------------------
(* The exported-farm specification: get_exported_fields on one farm        *)
(* directory of an exported root.                                          *)

\* files in patterns/ and in contours/
MaxFiles == 2

FileNames ==
    [field : Range(FieldNamePool), suffix : {"_patterns", "_contour"},
     ext : {".shp", ".dbf"}]

Directories ==
    {None} \cup {Some(files) : files \in {fs \in SUBSET FileNames :
                                             Cardinality(fs) <= MaxFiles}}

InitExported ==
    /\ LedgerIdle
    /\ ParseIdle
    /\ DecodeIdle
    /\ ArchiveIdle
    /\ root \in [patterns : Directories, contours : Directories]
    /\ import_out = None

GetExportedFields ==
    /\ import_out = None
    /\ import_out' = Some([call |-> "get_exported_fields",
                           val |-> get_exported_fields(root)])
    /\ UNCHANGED <<root, ledger_vars, parse_vars, decode_vars, archive_vars>>

NextExported == GetExportedFields

SpecExported == InitExported /\ [][NextExported]_vars

\* the fields of the files of dir that are named <field><suffix>.shp
StemsIn(dir, suffix) ==
    IF dir = None THEN {}
    ELSE {name \in Range(FieldNamePool) :
             [field |-> name, suffix |-> suffix, ext |-> ".shp"] \in dir[1]}

\* C23: get_exported_fields lists a field exactly when patterns/ holds its
\* <field>_patterns.shp or contours/ holds its <field>_contour.shp, each
\* field once.
C23_UnionOfStems ==
    (import_out # None /\ import_out[1].call = "get_exported_fields") =>
        LET out == import_out[1].val
        IN  /\ Range(out) = StemsIn(root.patterns, "_patterns")
                               \cup StemsIn(root.contours, "_contour")
            /\ \A i, j \in DOMAIN out : out[i] = out[j] => i = j

\* one field has only a contour file, another only a patterns file
C23_Witness ==
    /\ import_out # None
    /\ import_out[1].call = "get_exported_fields"
    /\ \E a, b \in Range(import_out[1].val) :
          /\ a \in StemsIn(root.contours, "_contour")
          /\ a \notin StemsIn(root.patterns, "_patterns")
          /\ b \in StemsIn(root.patterns, "_patterns")
          /\ b \notin StemsIn(root.contours, "_contour")

-----------------------------------------------------------------------------
(* The root-resolution specification: resolve_import_root on the           *)
(* directory an uploaded archive was extracted into.                       *)

Dir(name, universe, known, dirs) ==
    [name |-> name, universe |-> universe, known |-> known, dirs |-> dirs]

\* four levels below extract_dir: an empty directory, or one that holds
\* only a subdirectory
Depth4Dirs == {Dir("sub", FALSE, FALSE, <<>>),
               Dir("sub", FALSE, FALSE, <<Dir("sub", FALSE, FALSE, <<>>)>>)}

Depth3Dirs ==
    {Dir(name, FALSE, known, dirs) :
        name \in {"north", "contours"}, known \in BOOLEAN,
        dirs \in SeqsUpTo(Depth4Dirs, 1)}

Depth2Dirs ==
    {Dir(name, FALSE, known, dirs) :
        name \in {"farm", "contours"}, known \in BOOLEAN,
        dirs \in SeqsUpTo(Depth3Dirs, 1)}

\* the names of the directories of extract_dir
TopNames == {"alpha", "beta"}

Depth1Dirs ==
    {Dir(name, universe, FALSE, dirs) :
        name \in TopNames, universe \in BOOLEAN,
        dirs \in SeqsUpTo(Depth2Dirs, 1)}

ExtractDirs ==
    {Dir("cerea_input", universe, FALSE, dirs) :
        universe \in BOOLEAN,
        dirs \in {ds \in SeqsUpTo(Depth1Dirs, Cardinality(TopNames)) :
                     \A i, j \in DOMAIN ds : ds[i].name = ds[j].name => i = j}}

InitResolve ==
    /\ LedgerIdle
    /\ ParseIdle
    /\ DecodeIdle
    /\ ArchiveIdle
    /\ root \in ExtractDirs
    /\ import_out = None

ResolveImportRoot(import_mode) ==
    /\ import_out = None
    /\ import_out' = Some([call |-> "resolve_import_root",
                           import_mode |-> import_mode,
                           val |-> resolve_import_root(root, import_mode)])
    /\ UNCHANGED <<root, ledger_vars, parse_vars, decode_vars, archive_vars>>

NextResolve == \E import_mode \in ImportModes : ResolveImportRoot(import_mode)

SpecResolve == InitResolve /\ [][NextResolve]_vars

\* dir holds a farm folder with a field folder: a folder two levels down
\* that holds contour.txt or patterns.txt, or no folder
HasFarmFieldFolders(dir) ==
    \E farm \in Range(dir.dirs) : \E field \in Range(farm.dirs) :
        field.known \/ field.dirs = <<>>

\* dir holds a farm folder with a patterns or contours entry
HasExportedFarmFolder(dir) ==
    \E farm \in Range(dir.dirs) : \E entry \in Range(farm.dirs) :
        entry.name \in {"patterns", "contours"}

\* the marker of the import mode
Marker(import_mode, dir) ==
    IF import_mode = "Cerea txt" THEN dir.universe /\ HasFarmFieldFolders(dir)
    ELSE HasExportedFarmFolder(dir)

\* the marker is not in extract_dir but in one of its directories
Wrapped(import_mode) ==
    /\ ~Marker(import_mode, root)
    /\ \E wrapper \in Range(root.dirs) : Marker(import_mode, wrapper)

\* what resolve_universe_path is given for the directory at path
UniverseView(path) ==
    [universe |-> IF At(root, path).universe THEN Some(GoodUniverse) ELSE None,
     parent_universe |-> path # <<>>
                         /\ At(root, SubSeq(path, 1, Len(path) - 1)).universe,
     farms |-> <<>>]

Resolved == import_out # None /\ import_out[1].call = "resolve_import_root"

\* C24: when the marker of the import mode is not in extract_dir but in a
\* directory of it, resolve_import_root returns a directory below
\* extract_dir under which the farms are found (in "Cerea txt" mode, farm
\* folders with field folders; in "Exported shp" mode, a farm folder with
\* patterns or contours), and in "Cerea txt" mode resolve_universe_path
\* finds universe.txt from it.
C24_WrapperTolerated ==
    (Resolved /\ Wrapped(import_out[1].import_mode)) =>
        LET path == import_out[1].val
            found == At(root, path)
        IN  /\ path # <<>>
            /\ IF import_out[1].import_mode = "Cerea txt"
               THEN /\ HasFarmFieldFolders(found)
                    /\ resolve_universe_path(UniverseView(path)) # None
               ELSE HasExportedFarmFolder(found)

\* an archive that extracts into one folder, listed after another folder
\* without the marker
C24_Witness ==
    /\ Resolved
    /\ import_out[1].import_mode = "Cerea txt"
    /\ Wrapped("Cerea txt")
    /\ ~root.universe
    /\ Len(root.dirs) = 2
    /\ import_out[1].val = <<2>>
    /\ root.dirs[2].universe

-----------------------------------------------------------------------------
(* The round-trip specification: load_field_data_from_shapefiles on one     *)
(* pair of vector files. c_doc holds the pair, c_out the result.            *)

MaxFeatures == 2

Parts == <<"part a", "part b", "part c">>

\* the geometry of feature i of a file whose coordinates are in crs
Feature(i, crs) == [in |-> crs, of |-> {Parts[i]}, displaced |-> FALSE]

FeatureNames == {None, Some(""), Some("Headland")}

\* the frames gpd.read_file can give: a failure, or rows with coordinates in
\* EPSG:4326 or EPSG:25832 under a CRS that is stored rightly or not stored
Frames ==
    {[raises |-> Some(e), crs |-> None, has_name_col |-> FALSE, rows |-> <<>>]
        : e \in {"OSError", "RuntimeError"}}
    \cup
    {[raises |-> None, crs |-> crs, has_name_col |-> has_name_col,
      rows |-> [i \in 1..n |-> [name |-> name, geometry |-> Feature(i, in)]]]
        : <<n, in, crs, has_name_col, name>> \in
            {t \in (0..MaxFeatures) \X {"EPSG:4326", "EPSG:25832"}
                   \X {None, Some("EPSG:4326"), Some("EPSG:25832")}
                   \X BOOLEAN \X FeatureNames :
                /\ t[3] # None => t[3][1] = t[2]
                /\ t[1] = 0 => (t[2] = "EPSG:4326" /\ t[5] = None)
                /\ ~t[4] => t[5] = None}}

\* a .shp without .prj has no stored CRS
Shapefiles ==
    {None} \cup
    {Some([present |-> present, gdf |-> gdf])
        : <<present, gdf>> \in
            {t \in (SUBSET Range(SidecarExts)) \X Frames :
                ".prj" \notin t[1] => t[2].crs = None}}

\* the patterns file of the runs: absent, whole, or without companions
PatternShapefiles ==
    {shp \in Shapefiles :
        shp # None => /\ shp[1].present \in {Range(SidecarExts), {".dbf"}}
                      /\ shp[1].gdf.raises = None
                      /\ Len(shp[1].gdf.rows) \in {0, MaxFeatures}}

InitShapefiles ==
    /\ LedgerIdle
    /\ ParseIdle
    /\ c_doc \in {[contour_shp |-> a, patterns_shp |-> b]
                    : <<a, b>> \in (Shapefiles \X {None})
                                   \cup ({None} \X Shapefiles)
                                   \cup (PatternShapefiles \X PatternShapefiles)}
    /\ c_out = None
    /\ u_lines = <<>>
    /\ u_out = None
    /\ ImportIdle
    /\ ArchiveIdle

LoadFieldDataFromShapefiles ==
    /\ c_out = None
    /\ c_out' = Some([call |-> "load_field_data_from_shapefiles",
                      val |-> load_field_data_from_shapefiles(c_doc.contour_shp,
                                                              c_doc.patterns_shp)])
    /\ UNCHANGED <<c_doc, u_lines, u_out, ledger_vars, parse_vars,
                   import_vars, archive_vars>>

NextShapefiles == LoadFieldDataFromShapefiles

SpecShapefiles == InitShapefiles /\ [][NextShapefiles]_vars

Loaded == c_out # None /\ c_out[1].call = "load_field_data_from_shapefiles"

\* the companion extensions a present file lacks, in the order of the code
Lacking(shp) == SelectSeq(SidecarExts, LAMBDA ext : ext \notin shp[1].present)

SidecarNotes(kind) ==
    SelectSeq(c_out[1].val.notes,
              LAMBDA n : n.note = "sidecars missing" /\ n.source = kind)

\* what the pair gives when one of its files is taken away
WithoutContour == load_field_data_from_shapefiles(None, c_doc.patterns_shp)

WithoutPatterns == load_field_data_from_shapefiles(c_doc.contour_shp, None)

\* C25: a vector file that exists but lacks a companion file yields no
\* geometry and one 'sidecars missing' note that names the missing files; an
\* absent vector file yields no such note; in both cases the call raises only
\* if the other file does, and polygon, tracks and notes of the other file
\* are those it gives alone.
C25_MissingSidecarNoted ==
    Loaded =>
        /\ (c_doc.contour_shp = None \/ Lacking(c_doc.contour_shp) # <<>>) =>
              /\ c_out[1].val.polygon = None
              /\ c_out[1].val.raised = WithoutContour.raised
              /\ c_out[1].val.line_items = WithoutContour.line_items
              /\ SidecarNotes("Patterns") = SelectSeq(WithoutContour.notes,
                        LAMBDA n : n.note = "sidecars missing")
              /\ IF c_doc.contour_shp = None
                 THEN SidecarNotes("Contour") = <<>>
                 ELSE /\ Len(SidecarNotes("Contour")) = 1
                      /\ SidecarNotes("Contour")[1].missing = Lacking(c_doc.contour_shp)
        /\ (c_doc.patterns_shp = None \/ Lacking(c_doc.patterns_shp) # <<>>) =>
              /\ WithoutPatterns.raised = None => c_out[1].val.line_items = <<>>
              /\ c_out[1].val.raised = WithoutPatterns.raised
              /\ c_out[1].val.polygon = WithoutPatterns.polygon
              /\ SidecarNotes("Contour") = SelectSeq(WithoutPatterns.notes,
                        LAMBDA n : n.note = "sidecars missing")
              /\ IF c_doc.patterns_shp = None \/ WithoutPatterns.raised # None
                 THEN SidecarNotes("Patterns") = <<>>
                 ELSE /\ Len(SidecarNotes("Patterns")) = 1
                      /\ SidecarNotes("Patterns")[1].missing = Lacking(c_doc.patterns_shp)

C25_Witness ==
    /\ Loaded
    /\ c_doc.contour_shp # None
    /\ Lacking(c_doc.contour_shp) = <<".shx", ".prj">>
    /\ c_doc.contour_shp[1].gdf.rows # <<>>
    /\ c_doc.patterns_shp # None
    /\ c_out[1].val.polygon = None
    /\ Len(c_out[1].val.line_items) = MaxFeatures
    /\ Len(c_out[1].val.notes) = 1
    /\ c_out[1].val.notes[1].missing = <<".shx", ".prj">>

\* a present file that gpd.read_file reads to a frame with rows and without
\* stored CRS, next to exactly the companion files present
NoStoredCrs(shp, present) ==
    /\ shp # None
    /\ shp[1].present = present
    /\ shp[1].gdf.raises = None
    /\ shp[1].gdf.crs = None
    /\ shp[1].gdf.rows # <<>>

\* row i of the frame, its coordinates read as WGS84 and brought to EPSG:25832
AsWgs84(shp, i) ==
    [in |-> "EPSG:25832", of |-> shp[1].gdf.rows[i].geometry.of,
     displaced |-> shp[1].gdf.rows[i].geometry.in # "EPSG:4326"]

\* polygon and tracks of the result are those of the frames read as WGS84
PolygonAsWgs84 ==
    /\ c_out[1].val.polygon # None
    /\ c_out[1].val.polygon[1].in = "EPSG:25832"
    /\ c_out[1].val.polygon[1].of =
          UNION {AsWgs84(c_doc.contour_shp, i).of
                    : i \in DOMAIN c_doc.contour_shp[1].gdf.rows}
    /\ c_out[1].val.polygon[1].displaced =
          \E i \in DOMAIN c_doc.contour_shp[1].gdf.rows :
              AsWgs84(c_doc.contour_shp, i).displaced

TracksAsWgs84 ==
    /\ Len(c_out[1].val.line_items) = Len(c_doc.patterns_shp[1].gdf.rows)
    /\ \A i \in DOMAIN c_out[1].val.line_items :
          c_out[1].val.line_items[i].geometry = AsWgs84(c_doc.patterns_shp, i)

AllButPrj == Range(SidecarExts) \ {".prj"}

\* C26 as stated: a vector file without .prj is still read, its geometry
\* taken as WGS84 and reprojected, so polygon and tracks are loaded.
C26_NoPrjStillRead ==
    (Loaded /\ c_out[1].val.raised = None) =>
        /\ NoStoredCrs(c_doc.contour_shp, AllButPrj) => PolygonAsWgs84
        /\ NoStoredCrs(c_doc.patterns_shp, AllButPrj) => TracksAsWgs84

\* C26 amended: a vector file that has all its companion files and no stored
\* CRS is still read, its geometry taken as WGS84 and reprojected, so polygon
\* and tracks are loaded; a vector file without .prj yields no geometry.
C26_NoCrsAssumedWgs84 ==
    (Loaded /\ c_out[1].val.raised = None) =>
        /\ NoStoredCrs(c_doc.contour_shp, Range(SidecarExts)) => PolygonAsWgs84
        /\ NoStoredCrs(c_doc.patterns_shp, Range(SidecarExts)) => TracksAsWgs84
        /\ NoStoredCrs(c_doc.contour_shp, AllButPrj) => c_out[1].val.polygon = None
        /\ NoStoredCrs(c_doc.patterns_shp, AllButPrj) => c_out[1].val.line_items = <<>>

C26_Witness ==
    /\ Loaded
    /\ NoStoredCrs(c_doc.contour_shp, Range(SidecarExts))
    /\ Len(c_doc.contour_shp[1].gdf.rows) = MaxFeatures
    /\ c_doc.contour_shp[1].gdf.rows[1].geometry.in = "EPSG:4326"
    /\ c_out[1].val.polygon # None
    /\ c_out[1].val.polygon[1].of = {Parts[1], Parts[2]}
    /\ ~c_out[1].val.polygon[1].displaced

-----------------------------------------------------------------------------
(* Claims on the ledger specification, continued.                           *)

RenamedKeys(fe, key) == IF key \in DOMAIN fe THEN DOMAIN fe[key].renamed ELSE {}

OrderedIn(fe, key) ==
    IF key \in DOMAIN fe /\ fe[key].order # None THEN Range(fe[key].order[1])
    ELSE {}

\* C27 as stated: no id of deleted_ids is a key of renamed or an element of
\* order.
C27_DeletedNeverRenamedOrOrdered ==
    \A key \in DOMAIN field_edits :
        DeletedIn(field_edits, key)
            \cap (RenamedKeys(field_edits, key) \cup OrderedIn(field_edits, key)) = {}

\* C27 amended: right after a delete_track_edit(key, t) that records a new
\* deletion, t is in deleted_ids and neither a key of renamed nor an element
\* of order; a later rename_track_edit(key, t, n) stores t in renamed and a
\* later set_track_order_edit(key, ids) stores every id of ids in order, both
\* leaving deleted_ids as it is.
C27_PurgedAtDeleteOnly ==
    [][\A key \in Keys, t \in TrackIds :
          /\ (/\ IsCall(ret', "delete_track_edit", key)
              /\ ret'.call.arg = <<t>>
              /\ ret'.call.val = TRUE)
                => /\ t \in DeletedIn(field_edits', key)
                   /\ t \notin RenamedKeys(field_edits', key)
                   /\ t \notin OrderedIn(field_edits', key)
          /\ (IsCall(ret', "rename_track_edit", key) /\ ret'.call.arg[1] = t)
                => /\ t \in RenamedKeys(field_edits', key)
                   /\ DeletedIn(field_edits', key) = DeletedIn(field_edits, key)
          /\ (IsCall(ret', "set_track_order_edit", key) /\ t \in Range(ret'.call.arg))
                => /\ t \in OrderedIn(field_edits', key)
                   /\ DeletedIn(field_edits', key) = DeletedIn(field_edits, key)
      ]_vars

\* an id renamed and ordered, deleted as a new deletion, then renamed again
C27_Witness ==
    \E key \in Keys, t \in TrackIds :
        /\ IsCall(ret, "rename_track_edit", key)
        /\ ret.call.arg[1] = t
        /\ t \in DeletedIn(field_edits, key)
        /\ t \in RenamedKeys(field_edits, key)
        /\ t \notin OrderedIn(field_edits, key)
        /\ field_edits[key].order # None

-----------------------------------------------------------------------------
(* The two-field specification: the edit calls on two fields of a farm in   *)
(* any interleaving, the user switching between the fields.                 *)

FrameTrackIds == {0}

FrameOrders == {<<>>, <<0>>, <<0, 0>>}

InitFrame ==
    /\ field_edits = EmptyDict
    /\ sources = [key \in ExportKeys |->
                    [contour |-> None, patterns |-> Some(OnePattern)]]
    /\ ret = [call |-> NoCall, after |-> <<"none", "">>]
    /\ ParseIdle
    /\ ExtraIdle

NextFrame ==
    \/ \E key \in ExportKeys, track_id \in FrameTrackIds : DeleteTrackEdit(key, track_id)
    \/ \E key \in ExportKeys, track_id \in FrameTrackIds :
          RenameTrackEdit(key, track_id, "X")
    \/ \E key \in ExportKeys, ids \in FrameOrders : SetTrackOrderEdit(key, ids)
    \/ \E key \in ExportKeys : MarkFieldEditClean(key)
    \/ \E key \in ExportKeys : EnsureFieldState(key)
    \/ \E key \in ExportKeys : ResetFieldState(key)

SpecFrame == InitFrame /\ [][NextFrame]_vars

\* the ledger entry of a key: None, or Some of (order, renamed, deleted_ids, dirty)
Entry(fe, key) ==
    IF key \in DOMAIN fe
    THEN Some(<<fe[key].order, fe[key].renamed, fe[key].deleted_ids, fe[key].dirty>>)
    ELSE None

FrameOps ==
    {"delete_track_edit", "rename_track_edit", "set_track_order_edit",
     "mark_field_edit_clean", "reset_field_state"}

\* C28: delete_track_edit, rename_track_edit, set_track_order_edit,
\* mark_field_edit_clean and reset_field_state on one field key leave the
\* ledger entry of every other field key as it was, and make no entry for it.
C28_OtherFieldsUntouched ==
    [][\A key \in ExportKeys :
          (ret'.call.op \in FrameOps /\ ret'.call.key = key)
              => \A other \in ExportKeys \ {key} :
                    Entry(field_edits', other) = Entry(field_edits, other)
      ]_vars

\* south reset with an entry dropped, north keeping its edits and dirty flag
C28_Witness ==
    /\ IsCall(ret, "reset_field_state", "Cerea txt::farm::south")
    /\ ret.call.val = TRUE
    /\ "Cerea txt::farm::north" \in DOMAIN field_edits
    /\ field_edits["Cerea txt::farm::north"].dirty
    /\ field_edits["Cerea txt::farm::north"].deleted_ids = <<0>>
    /\ field_edits["Cerea txt::farm::north"].order = Some(<<>>)

-----------------------------------------------------------------------------
(* The key specification: field_key and parse_field_key on one field, and   *)
(* an edit recorded under its key. root holds the field as (import mode,    *)
(* farm name, field name).                                                  *)

MaxNameLen == 3

NameChars == {"a", ":"}

\* the names a directory or a file stem can have
DirNames == SeqsUpTo(NameChars, MaxNameLen) \ {<<>>}

FieldTriples == {<<"Cerea txt">>, <<"Exported shp">>} \X DirNames \X DirNames

KeyOf(triple) == field_key(triple[1], triple[2], triple[3])

InitKey ==
    /\ field_edits = EmptyDict
    /\ sources = EmptyDict
    /\ ret = [call |-> NoCall, after |-> <<"none", "">>]
    /\ ParseIdle
    /\ DecodeIdle
    /\ root \in FieldTriples
    /\ import_out = None
    /\ ArchiveIdle

ParseFieldKey ==
    /\ import_out = None
    /\ import_out' = Some([call |-> "parse_field_key",
                           val |-> parse_field_key(KeyOf(root))])
    /\ UNCHANGED <<root, ledger_vars, parse_vars, decode_vars, archive_vars>>

\* an edit of the field on screen
EditField ==
    /\ field_edits = EmptyDict
    /\ field_edits' = delete_track_edit(field_edits, KeyOf(root), 0).field_edits
    /\ UNCHANGED <<sources, ret, root, import_out, parse_vars, decode_vars,
                   archive_vars>>

NextKey == ParseFieldKey \/ EditField

SpecKey == InitKey /\ [][NextKey]_vars

\* C29: parse_field_key(field_key(m, farm, field)) = (m, farm, field) for
\* every import mode and every farm and field name, names with "::" included,
\* and the ledger entry of a field is the entry of no other field.
C29_KeyRoundTrip ==
    /\ (import_out # None /\ import_out[1].call = "parse_field_key")
          => /\ import_out[1].val.raised = None
             /\ import_out[1].val.val = root
    /\ \A other \in FieldTriples :
          KeyOf(other) \in DOMAIN field_edits => other = root

-----------------------------------------------------------------------------
(* The export-and-edits specification: export_all_fields in the "Cerea txt" *)
(* import mode over two fields of a farm, among edits of the two fields and *)
(* of a field of the other import mode.                                     *)

OtherModeKey == "Exported shp::farm::north"

EditedSourcePool ==
    {[contour |-> Some(ContourDoc(SquareContour)), patterns |-> Some(OnePattern)],
     [contour |-> None, patterns |-> None],
     [contour |-> None, patterns |-> Some(OnePattern)],
     [contour |-> Some([json |-> "object",
                        field |-> Some([str |-> FALSE, coords |-> <<>>])]),
      patterns |-> Some(OnePattern)]}

InitEdited ==
    /\ field_edits = EmptyDict
    /\ sources \in [ExportKeys -> EditedSourcePool]
    /\ ret = [call |-> NoCall, after |-> <<"none", "">>]
    /\ ParseIdle
    /\ ExtraIdle

NextEdited ==
    \/ \E key \in ExportKeys \cup {OtherModeKey} : DeleteTrackEdit(key, 0)
    \/ RenameTrackEdit("Cerea txt::farm::north", 0, "X")
    \/ SetTrackOrderEdit("Cerea txt::farm::north", <<0>>)
    \/ \E listing \in Listings(ExportKeys) : ExportAllFields(listing)

SpecEdited == InitEdited /\ [][NextEdited]_vars

\* C30: export_all_fields adds and drops no ledger entry, leaves order,
\* renamed and deleted_ids of every entry as they were, sets dirty to false
\* for the entries of the fields it exported, and leaves dirty as it was for
\* every other entry: of a field it skipped, of a field it did not reach, of
\* the other import mode.
C30_ExportOnlyClearsDirty ==
    [][ret'.call.op = "export_all_fields" =>
          /\ DOMAIN field_edits' = DOMAIN field_edits
          /\ \A key \in DOMAIN field_edits :
                /\ Deltas(field_edits'[key]) = Deltas(field_edits[key])
                /\ field_edits'[key].dirty =
                      IF key \in DOMAIN ret'.call.val.exported THEN FALSE
                      ELSE field_edits[key].dirty
      ]_vars

\* north exported with its rename and order kept, south skipped because its
\* one track is deleted and it has no contour, the other mode's entry dirty
C30_Witness ==
    /\ ret.call.op = "export_all_fields"
    /\ DOMAIN ret.call.val.exported = {"Cerea txt::farm::north"}
    /\ DOMAIN field_edits = ExportKeys \cup {OtherModeKey}
    /\ ~field_edits["Cerea txt::farm::north"].dirty
    /\ field_edits["Cerea txt::farm::north"].renamed # EmptyDict
    /\ field_edits["Cerea txt::farm::north"].order = Some(<<0>>)
    /\ sources["Cerea txt::farm::south"].contour = None
    /\ sources["Cerea txt::farm::south"].patterns # None
    /\ field_edits["Cerea txt::farm::south"].dirty
    /\ field_edits["Cerea txt::farm::south"].deleted_ids = <<0>>
    /\ field_edits[OtherModeKey].dirty

====
